---- MODULE Spec2Model ----
(***************************************************************************)
(* State-machine model of the ai-servis C++ core:                          *)
(*   - the tinymcp tool registry (ToolRegistry behind Server),             *)
(*   - the tinymcp client's request/response correlation (Client),         *)
(*   - the WebGrab job engine (MessageQueueProcessor, JobWorker,           *)
(*     DownloadJob, WebGrabServer::handleClient).                          *)
(* Each subsystem has its own specification; the variables of the other    *)
(* subsystems stay at their initial values under it.                       *)
(***************************************************************************)
EXTENDS Integers, Sequences, FiniteSets, TLC

VARIABLES
    \* ---- tinymcp Server / ToolRegistry
    tools,            \* ToolRegistry::tools : name -> Tool (std::map)
    regResult,        \* outcome of the last registerTool/removeTool call
    firstRegistered,  \* history: per name, the Tool of the earliest registration
                      \* of that name that has not been unregistered since
    \* ---- tinymcp Client
    alive,            \* the Client object exists (not yet destroyed)
    connected,        \* Client::Impl::connected
    pendingRequests,  \* Client::Impl::pendingRequests : id -> promise; a promise is
                      \* the set of callers whose future it feeds: {t}, or {} when
                      \* that future is gone
    callPc,           \* per caller: position inside Client::sendRequest
    reqId,            \* per caller: request.id of its current/last call
    shared,           \* per caller: shared state of its promise/future pair
    elapsed,          \* per caller: time spent in future.wait_for, in ticks
    lastDelivery,     \* history: what the last Client::onResponse call did
    lastReply,        \* the reply filled in by the last Client::onRequest call
    \* ---- WebGrab job engine
    crashed,          \* the server process has crashed
    clientPc,         \* per connection: position of its handleClient thread
    nextSessionId,    \* MessageQueueProcessor::next_session_id_
    jobs,             \* MessageQueueProcessor::jobs_ : sessionId -> JobInfo
    localId,          \* per connection: the local sessionId of enqueueJob
    lastResponse,     \* the last response processMessage wrote to a writer
    allocated,        \* history: the session ids enqueueJob drew, in order
    jobQueue,         \* JobWorker::job_queue_
    running,          \* the jobs worker threads are executing (one per busy thread)
    jobReport,        \* sessionId -> status string written by DownloadJob::execute
    \* ---- TinyMCP DownloadTask / HttpClient / SessionPersistence
    taskPc,           \* position of the thread running DownloadTask::execute
    httpAbortRequested, \* HttpClient::abort_requested_
    taskAbortRequested, \* DownloadTask::abort_requested_
    isComplete,       \* DownloadTask::is_complete_
    outputFile,       \* the file at output_path_: "absent" or "present"
    downloadedBytes,  \* bytes WriteCallback has written to the file, in chunks
    session,          \* the DownloadSession of session_id_: status, downloaded_bytes
    curlRes,          \* the CURLcode of curl_easy_perform
    executeResult,    \* what DownloadTask::execute returned
    \* ---- WebGrab client-side APIs (MCP download tool, C API)
    apiReport,        \* the last download call made through an API: which API, the
                      \* session id it reported, the id the engine allocated
    \* ---- Context store (ContextManager over FileContextPersistence)
    sessionsCache,    \* ContextManager::sessionsCache : sessionId -> SessionContext
    sessionFiles,     \* sessions/<id>.json : id -> what serializeSessionContext wrote
    now,              \* std::chrono::system_clock::now(), in minutes
    sessionsMutex,    \* ContextManager::sessionsMutex: the thread holding it, or 0
    addPc,            \* per thread: position inside addCommandToHistory
    addArg,           \* per thread: the sessionId and the call of its addCommandToHistory
    addCalls,         \* per thread: number of addCommandToHistory calls made
    lastGet,          \* the last getSessionContext call: id asked, result, context
    lastWrite,        \* history: the last completed write: operation and session id
    \* ---- TinyMCP DownloadTask (continued)
    taskPath,         \* the branch DownloadTask::execute took: "fresh" or "resume"
    cancelledRunning, \* history: cancel() was called while the transfer ran
    \* ---- tinymcp Server: request dispatch
    resources,        \* ResourceRegistry::resources : uri -> Resource (std::map)
    srvRunning,       \* Server::Impl::running
    srvRequest,       \* the Request of the last Server::onRequest call
    srvResponse,      \* the Response that call filled in
    srvSeq,           \* history: parity of the number of Server::onRequest calls
    srvInvoked,       \* history: the tool handler the last onRequest call invoked
    \* ---- HardwareControlServer / WebGrabServer: start and stop
    hwRunning,        \* HardwareControlServer::running
    hwServerSocket,   \* HardwareControlServer::serverSocket: "open" or "closed" (-1)
    hwAcceptPc,       \* position of acceptThread inside AcceptConnections
    hwStopPc,         \* position of the thread calling HardwareControlServer::Stop
    hwClients,        \* number of detached HandleClient threads waiting in recv
    wgRunning,        \* WebGrabServer::running_
    wgAcceptPc,       \* position of the acceptLoop thread of worker_threads_
    wgStopPc,         \* position of the thread calling WebGrabServer::stop
    wgHandlers,       \* number of handleClient threads of worker_threads_ not yet finished
    \* ---- Orchestrator facade: processCommand over the context store
    orchPc,           \* position inside the orchestrator's processCommand
    orchCall,         \* the processCommand call in progress or last returned
    \* ---- tinymcp ProtocolSerializer: frames
    wireSent,         \* the Message handed to ProtocolSerializer::serialize, if the frame is ours
    wireData,         \* the frame text: written by serialize or received from the peer
    wireDecoded,      \* what ProtocolSerializer::deserialize did with wireData
    \* ---- tinymcp Server: tools/call against concurrent registry writers
    srvMutex,         \* Server::Impl::mutex: "free" or the thread holding it
    writerPc,         \* position of the thread inside Server::registerTool / removeTool
    writerOp,         \* the registerTool / removeTool call that thread makes
    toolCallPc,       \* position of the request thread inside Server::handleCallTool
    toolCall,         \* the handleCallTool call: name, pointer found, what happened to the entry
    \* ---- JobWorker: the worker pool and stop
    job_queue_,       \* JobWorker::job_queue_: ids of the queued jobs, front first
    stop_requested_,  \* JobWorker::stop_requested_
    workerPc,         \* per worker thread: position inside JobWorker::workerLoop
    workerJob,        \* per worker thread: the job it popped (0: none)
    poolStopPc,       \* position of the thread calling JobWorker::stop
    executedBy,       \* history: per job, the workers whose execute() call on it finished
    addedJobs,        \* history: number of addJob calls made
    addedBeforeStop,  \* history: the jobs passed to addJob before stop() was called
    \* ---- ContextManager callers: a context held between get and update
    callerCopy,       \* the SessionContext a caller got from getSessionContext and still holds
    \* ---- TinyMCP DownloadTask: when cancel was called
    cancelledAt,      \* history: the positions of execute() at which cancel() was called
    \* ---- HardwareControlServer: GPIO requests
    gpioRunning,      \* HardwareControlServer::running, as the HandleClient threads read it
    activeLines,      \* pins that have an entry in HardwareControlServer::activeLines
    handlerPc,        \* handlerPc[h]: position of HandleClient thread h
    handlerReq,       \* handlerReq[h]: request thread h is handling
    gpioStopPc,       \* position of the thread that calls Stop
    \* ---- ThreadSafeQueue
    queue_,           \* ThreadSafeQueue::queue_, front first
    shutdown_,        \* ThreadSafeQueue::shutdown_
    popPc,            \* popPc[t]: "waiting" while consumer t is blocked in pop
    pushCalls,        \* number of push calls made; the n-th call pushes item n
    accepted,         \* items pushed while shutdown_ was false, in push order
    rejected,         \* items pushed after requestShutdown
    returned,         \* items handed out by pop and tryPop, in the order of the returns
    lastPop,          \* the last return of pop or tryPop and the state it saw
    \* ---- CoreOrchestrator: service registry and router
    mainProgram,      \* the main that runs: "full" (main_orchestrator_full.cpp), "basic" (main_orchestrator.cpp)
    services,         \* registered ServiceInfo records, in registration order
    routeResult       \* the last routeCommand call and the registry it saw

regVars == <<tools, regResult, firstRegistered>>
clientVars == <<alive, connected, pendingRequests, callPc, reqId, shared, elapsed,
                lastDelivery, lastReply>>
jobVars == <<crashed, clientPc, nextSessionId, jobs, localId, lastResponse,
             allocated, jobQueue, running, jobReport>>
taskVars == <<taskPc, httpAbortRequested, taskAbortRequested, isComplete, outputFile,
              downloadedBytes, session, curlRes, executeResult, taskPath,
              cancelledRunning>>

\* What the operations of one subsystem leave alone: the other subsystems.
apiVars == <<apiReport>>
ctxVars == <<sessionsCache, sessionFiles, now, sessionsMutex, addPc, addArg, addCalls,
             lastGet, lastWrite>>
srvVars == <<resources, srvRunning, srvRequest, srvResponse, srvSeq, srvInvoked>>
stopVars == <<hwRunning, hwServerSocket, hwAcceptPc, hwStopPc, hwClients, wgRunning,
              wgAcceptPc, wgStopPc, wgHandlers>>
orchVars == <<orchPc, orchCall>>
wireVars == <<wireSent, wireData, wireDecoded>>
raceVars == <<srvMutex, writerPc, writerOp, toolCallPc, toolCall>>
poolVars == <<job_queue_, stop_requested_, workerPc, workerJob, poolStopPc, executedBy, addedJobs, addedBeforeStop>>
copyVars == <<callerCopy>>
cancelVars == <<cancelledAt>>
gpioVars == <<gpioRunning, activeLines, handlerPc, handlerReq, gpioStopPc>>
queueVars == <<queue_, shutdown_, popPc, pushCalls, accepted, rejected, returned, lastPop>>
routeVars == <<mainProgram, services, routeResult>>
regFrame == <<clientVars, jobVars, taskVars, apiVars, ctxVars, srvVars, stopVars, orchVars, wireVars, raceVars, poolVars, copyVars, cancelVars, gpioVars, queueVars, routeVars>>
clientFrame == <<regVars, jobVars, taskVars, apiVars, ctxVars, srvVars, stopVars, orchVars, wireVars, raceVars, poolVars, copyVars, cancelVars, gpioVars, queueVars, routeVars>>
jobFrame == <<regVars, clientVars, taskVars, apiVars, ctxVars, srvVars, stopVars, orchVars, wireVars, raceVars, poolVars, copyVars, cancelVars, gpioVars, queueVars, routeVars>>
taskFrame == <<regVars, clientVars, jobVars, apiVars, ctxVars, srvVars, stopVars, orchVars, wireVars, raceVars, poolVars, copyVars, cancelVars, gpioVars, queueVars, routeVars>>
apiFrame == <<regVars, clientVars, taskVars, ctxVars, srvVars, stopVars, orchVars, wireVars, raceVars, poolVars, copyVars, cancelVars, gpioVars, queueVars, routeVars>>
ctxFrame == <<regVars, clientVars, jobVars, taskVars, apiVars, srvVars, stopVars, orchVars, wireVars, raceVars, poolVars, copyVars, cancelVars, gpioVars, queueVars, routeVars>>
srvFrame == <<regVars, clientVars, jobVars, taskVars, apiVars, ctxVars, stopVars, orchVars, wireVars, raceVars, poolVars, copyVars, cancelVars, gpioVars, queueVars, routeVars>>
stopFrame == <<regVars, clientVars, jobVars, taskVars, apiVars, ctxVars, srvVars, orchVars, wireVars, raceVars, poolVars, copyVars, cancelVars, gpioVars, queueVars, routeVars>>
orchFrame == <<regVars, clientVars, jobVars, taskVars, apiVars, srvVars, stopVars, wireVars, raceVars, poolVars, copyVars, cancelVars, gpioVars, queueVars, routeVars>>
wireFrame == <<regVars, clientVars, jobVars, taskVars, apiVars, ctxVars, srvVars, stopVars, orchVars, raceVars, poolVars, copyVars, cancelVars, gpioVars, queueVars, routeVars>>
raceFrame == <<clientVars, jobVars, taskVars, apiVars, ctxVars, srvVars, stopVars, orchVars, wireVars, poolVars, copyVars, cancelVars, gpioVars, queueVars, routeVars>>
poolFrame == <<regVars, clientVars, jobVars, taskVars, apiVars, ctxVars, srvVars, stopVars, orchVars, wireVars, raceVars, copyVars, cancelVars, gpioVars, queueVars, routeVars>>
copyFrame == <<regVars, clientVars, jobVars, taskVars, apiVars, srvVars, stopVars, orchVars, wireVars, raceVars, poolVars, cancelVars, gpioVars, queueVars, routeVars>>
cancelFrame == <<regVars, clientVars, jobVars, apiVars, ctxVars, srvVars, stopVars, orchVars, wireVars, raceVars, poolVars, copyVars, gpioVars, queueVars, routeVars>>
gpioFrame == <<regVars, clientVars, jobVars, taskVars, apiVars, ctxVars, srvVars, stopVars, orchVars, wireVars, raceVars, poolVars, copyVars, cancelVars, queueVars, routeVars>>
queueFrame == <<regVars, clientVars, jobVars, taskVars, apiVars, ctxVars, srvVars, stopVars, orchVars, wireVars, raceVars, poolVars, copyVars, cancelVars, gpioVars, routeVars>>
routeFrame == <<regVars, clientVars, jobVars, taskVars, apiVars, ctxVars, srvVars, stopVars, orchVars, wireVars, raceVars, poolVars, copyVars, cancelVars, gpioVars, queueVars>>
vars == <<regVars, clientVars, jobVars, taskVars, apiVars, ctxVars, srvVars, stopVars, orchVars, wireVars, raceVars, poolVars, copyVars, cancelVars, gpioVars, queueVars, routeVars>>

\* The empty map (a function with empty domain).
EmptyMap == [x \in {} |-> x]

\* m with key k bound to v (std::map operator[] assignment).
MapPut(m, k, v) == [x \in (DOMAIN m) \cup {k} |-> IF x = k THEN v ELSE m[x]]

\* m without key k (std::map::erase by key; no effect when k is absent).
MapErase(m, k) == [x \in (DOMAIN m) \ {k} |-> m[x]]

(***************************************************************************)
(* Tool registry                                                           *)
(***************************************************************************)
ToolNames == {"echo", "sum"}
ToolDescriptions == {"d1", "d2"}
\* Json::Value inputSchema: null, or an object with a "required" array.
ToolSchemas == {[isNull |-> TRUE, required |-> {}],
                [isNull |-> FALSE, required |-> {"x"}]}
\* Tool::handler: an empty std::function or one of two callables.
ToolHandlers == {"h1", "h2"}

\* class Tool: name, description, inputSchema, handler.
Tool == [name : ToolNames, description : ToolDescriptions,
         inputSchema : ToolSchemas, handler : ToolHandlers]

\* ToolRegistry::registerTool: tools[tool.name] = tool.
RegistryRegisterTool(reg, tool) == MapPut(reg, tool.name, tool)

\* ToolRegistry::unregisterTool: tools.erase(name).
RegistryUnregisterTool(reg, name) == MapErase(reg, name)

\* ToolRegistry::hasTool.
HasTool(reg, name) == name \in DOMAIN reg

\* Server::registerTool: under the server mutex, toolRegistry.registerTool(tool).
\* The call returns void and throws nothing: its outcome is always "ok".
RegisterTool(tool) ==
    /\ tools' = RegistryRegisterTool(tools, tool)
    /\ regResult' = [op |-> "register", name |-> tool.name,
                     duplicate |-> HasTool(tools, tool.name), outcome |-> "ok"]
    /\ firstRegistered' = IF HasTool(tools, tool.name)
                          THEN firstRegistered
                          ELSE MapPut(firstRegistered, tool.name, tool)

\* Server::removeTool: under the server mutex, toolRegistry.unregisterTool(name).
RemoveTool(name) ==
    /\ tools' = RegistryUnregisterTool(tools, name)
    /\ regResult' = [op |-> "remove", name |-> name,
                     duplicate |-> FALSE, outcome |-> "ok"]
    /\ firstRegistered' = MapErase(firstRegistered, name)

InitRegistryVars ==
    /\ tools = EmptyMap
    /\ regResult = [op |-> "none", name |-> "", duplicate |-> FALSE, outcome |-> "ok"]
    /\ firstRegistered = EmptyMap

(***************************************************************************)
(* tinymcp Client: request/response correlation                            *)
(***************************************************************************)
\* Number of Client::sendRequest calls, each made by a thread of its own.
NumCallers == 2
\* Number of distinct request ids the callers draw from.
NumIds == 2
\* ClientConfig::timeout, in ticks of the model's clock.
TimeoutTicks == 1

Callers == 1..NumCallers
Ids == 1..NumIds
\* Ids a peer may put in a Response: the request ids and 0, an id of no request.
ResponseIds == 0..NumIds
\* A Response, reduced to the field the correlation reads: its id.
Response == [id : ResponseIds]

\* Shared state of a std::promise/std::future pair.
NoShared == [state |-> "none", id |-> 0]
EmptyShared == [state |-> "empty", id |-> 0]
BrokenShared == [state |-> "broken", id |-> 0]
ValueShared(r) == [state |-> "value", id |-> r.id]

\* Positions of a caller whose sendRequest call has returned or thrown.
CallOver == {"returned", "timeout", "notconnected", "broken"}

\* Destroying (or move-assigning over) a promise that was never satisfied
\* stores broken_promise in its shared state and makes it ready.
Abandon(sh, waiters) ==
    [u \in Callers |-> IF u \in waiters /\ sh[u].state = "empty"
                       THEN BrokenShared ELSE sh[u]]

\* Client::connect.
ClientConnect ==
    /\ alive
    /\ connected' = TRUE
    /\ UNCHANGED <<alive, pendingRequests, callPc, reqId, shared, elapsed,
                   lastDelivery, lastReply>>

\* Client::disconnect: sets connected = false and nothing else.
ClientDisconnect ==
    /\ alive
    /\ connected' = FALSE
    /\ UNCHANGED <<alive, pendingRequests, callPc, reqId, shared, elapsed,
                   lastDelivery, lastReply>>

\* Client::~Client: disconnect() when connected, then the Impl and with it
\* every promise still in pendingRequests is destroyed.  Callers that sit
\* between isConnected() and the insertion would touch the freed Impl, so the
\* owner destroys the client only when none is there.
ClientDestroy ==
    /\ alive
    /\ \A t \in Callers : callPc[t] # "checked"
    /\ alive' = FALSE
    /\ connected' = FALSE
    /\ shared' = Abandon(shared, UNION {pendingRequests[k] : k \in DOMAIN pendingRequests})
    /\ pendingRequests' = EmptyMap
    /\ UNCHANGED <<callPc, reqId, elapsed, lastDelivery, lastReply>>

\* Client::sendRequest, entry: isConnected() under the mutex; throws
\* MCPException("Client not connected") when it is false.
SendRequestEnter(t, id) ==
    /\ alive
    /\ callPc[t] = "idle"
    /\ reqId' = [reqId EXCEPT ![t] = id]
    /\ callPc' = [callPc EXCEPT ![t] = IF connected THEN "checked" ELSE "notconnected"]
    /\ shared' = [shared EXCEPT ![t] = NoShared]
    /\ UNCHANGED <<alive, connected, pendingRequests, elapsed, lastDelivery, lastReply>>

\* Client::Impl::waitForResponse, locked block:
\* pendingRequests[id] = std::move(promise).  A promise already stored under
\* the id is overwritten, which abandons it.
WaitInsert(t) ==
    /\ callPc[t] = "checked"
    /\ LET id == reqId[t]
           old == IF id \in DOMAIN pendingRequests THEN pendingRequests[id] ELSE {}
       IN /\ pendingRequests' = MapPut(pendingRequests, id, {t})
          /\ shared' = [Abandon(shared, old) EXCEPT ![t] = EmptyShared]
    /\ callPc' = [callPc EXCEPT ![t] = "waiting"]
    /\ elapsed' = [elapsed EXCEPT ![t] = 0]
    /\ UNCHANGED <<alive, connected, reqId, lastDelivery, lastReply>>

\* future.wait_for(milliseconds(config.timeout)) gives up: the timeout elapsed.
WaitForExpired_never(t) == FALSE
WaitForExpired(t) == elapsed[t] >= TimeoutTicks

\* A caller blocked inside wait_for: its shared state is not ready.
Blocked(t) == callPc[t] = "waiting" /\ shared[t].state = "empty"

\* The clock advances for every caller blocked inside wait_for.
Tick ==
    /\ \E t \in Callers : Blocked(t) /\ elapsed[t] < TimeoutTicks
    /\ elapsed' = [t \in Callers |->
                     IF Blocked(t) /\ elapsed[t] < TimeoutTicks
                     THEN elapsed[t] + 1 ELSE elapsed[t]]
    /\ UNCHANGED <<alive, connected, pendingRequests, callPc, reqId, shared,
                   lastDelivery, lastReply>>

\* waitForResponse: wait_for returned ready; future.get() returns the Response,
\* or rethrows std::future_error when the promise was abandoned.
WaitReady(t) ==
    /\ callPc[t] = "waiting"
    /\ shared[t].state \in {"value", "broken"}
    /\ callPc' = [callPc EXCEPT ![t] = IF shared[t].state = "value"
                                       THEN "returned" ELSE "broken"]
    /\ elapsed' = [elapsed EXCEPT ![t] = 0]
    /\ UNCHANGED <<alive, connected, pendingRequests, reqId, shared,
                   lastDelivery, lastReply>>

\* waitForResponse: wait_for timed out; throws MCPException("Request timeout").
\* The future goes out of scope; the promise stays in pendingRequests.
WaitTimeout(t) ==
    /\ callPc[t] = "waiting"
    /\ shared[t].state = "empty"
    /\ WaitForExpired(t)
    /\ callPc' = [callPc EXCEPT ![t] = "timeout"]
    /\ shared' = [shared EXCEPT ![t] = NoShared]
    /\ pendingRequests' = [k \in DOMAIN pendingRequests |-> pendingRequests[k] \ {t}]
    /\ UNCHANGED <<alive, connected, reqId, elapsed, lastDelivery, lastReply>>

\* pendingRequests.find(response.id): the keys the lookup yields.
FindPending_first(id) ==
    IF DOMAIN pendingRequests = {} THEN {}
    ELSE {CHOOSE k \in DOMAIN pendingRequests : \A j \in DOMAIN pendingRequests : k <= j}
FindPending(id) == {k \in DOMAIN pendingRequests : k = id}

\* The reply Client::onRequest fills in: error -32601.
ClientRequestReply == [present |-> TRUE, code |-> -32601,
                       message |-> "Client does not handle requests"]
NoReply == [present |-> FALSE, code |-> 0, message |-> ""]

\* Client::onResponse when find() hits: set_value(response), erase(it).
FulfilResponse(r, k) ==
    /\ shared' = [u \in Callers |-> IF u \in pendingRequests[k]
                                    THEN ValueShared(r) ELSE shared[u]]
    /\ pendingRequests' = MapErase(pendingRequests, k)
    /\ lastDelivery' = "matched"
    /\ UNCHANGED lastReply

\* Client::onResponse when find() misses: the if has no else branch.
DropResponse_asRequest(r) ==
    /\ lastReply' = ClientRequestReply
    /\ lastDelivery' = "dropped"
    /\ UNCHANGED <<pendingRequests, shared>>
DropResponse(r) ==
    /\ lastDelivery' = "dropped"
    /\ UNCHANGED <<pendingRequests, shared, lastReply>>

\* Client::onResponse, under the mutex.
OnResponse(r) ==
    /\ alive
    /\ LET hit == FindPending(r.id)
       IN IF hit # {}
          THEN FulfilResponse(r, CHOOSE k \in hit : TRUE)
          ELSE DropResponse(r)
    /\ UNCHANGED <<alive, connected, callPc, reqId, elapsed>>

\* Client::onRequest: fills response.error, touches no client state.
OnRequest(id) ==
    /\ alive
    /\ lastReply' = ClientRequestReply
    /\ UNCHANGED <<alive, connected, pendingRequests, callPc, reqId, shared, elapsed,
                   lastDelivery>>

InitClientVars ==
    /\ alive = TRUE
    /\ connected = FALSE
    /\ pendingRequests = EmptyMap
    /\ callPc = [t \in Callers |-> "idle"]
    /\ reqId = [t \in Callers |-> 1]
    /\ shared = [t \in Callers |-> NoShared]
    /\ elapsed = [t \in Callers |-> 0]
    /\ lastDelivery = "none"
    /\ lastReply = NoReply

NextClient ==
    \/ ClientConnect /\ UNCHANGED clientFrame
    \/ ClientDisconnect /\ UNCHANGED clientFrame
    \/ ClientDestroy /\ UNCHANGED clientFrame
    \/ \E t \in Callers, id \in Ids : SendRequestEnter(t, id) /\ UNCHANGED clientFrame
    \/ \E t \in Callers : WaitInsert(t) /\ UNCHANGED clientFrame
    \/ Tick /\ UNCHANGED clientFrame
    \/ \E t \in Callers : WaitReady(t) /\ UNCHANGED clientFrame
    \/ \E t \in Callers : WaitTimeout(t) /\ UNCHANGED clientFrame
    \/ \E r \in Response : OnResponse(r) /\ UNCHANGED clientFrame
    \/ \E id \in ResponseIds : OnRequest(id) /\ UNCHANGED clientFrame

(***************************************************************************)
(* WebGrab job engine: WebGrabServer, MessageQueueProcessor, JobWorker,    *)
(* DownloadJob                                                             *)
(***************************************************************************)
\* Number of client connections, each served by its own handleClient thread.
NumClients == 2
\* Cap on the number of Download requests accepted in a run.
MaxJobs == 2
\* JobWorker(4): the size of the worker pool.
NumWorkers == 4

Clients == 1..NumClients
SessionIds == 1..MaxJobs

\* enum class JobStatus.
JobStatusValues == {"Queued", "Downloading", "Completed", "Failed", "Aborted"}

\* MessageQueueProcessor::statusToString.
StatusToString(status) ==
    CASE status = "Queued" -> "Queued"
      [] status = "Downloading" -> "Downloading"
      [] status = "Completed" -> "Completed"
      [] status = "Failed" -> "Failed"
      [] status = "Aborted" -> "Aborted"
      [] OTHER -> "Unknown"

\* The url of a Download request (an opaque string to the job engine).
Url == "http://x/a.bin"

\* The JobInfo enqueueJob stores: {sessionId, url, JobStatus::Queued, filePath},
\* filePath being workingDir + "/download_" + sessionId.
NewJobInfo_completed(sessionId, url) ==
    [sessionId |-> sessionId, url |-> url, status |-> "Completed", filePath |-> sessionId]
NewJobInfo(sessionId, url) ==
    [sessionId |-> sessionId, url |-> url, status |-> "Queued", filePath |-> sessionId]

\* processMessage, Status case: what a Status request for id is answered with.
StatusReply(id) ==
    IF id \in DOMAIN jobs THEN StatusToString(jobs[id].status) ELSE "Not found"

\* processMessage returns nullptr in every case ("Job already enqueued").
NoJob == [sessionId |-> 0, url |-> ""]
ProcessMessageReturn == NoJob

\* JobWorker::addJob: job_queue_.push(job); cv_.notify_one().
AddJob_front(queue, job) == <<job>> \o queue
AddJob(queue, job) == Append(queue, job)

\* WebGrabServer::acceptLoop: a connection is accepted and a handleClient
\* thread is started for it.
AcceptClient(c) ==
    /\ ~crashed
    /\ clientPc[c] = "none"
    /\ clientPc' = [clientPc EXCEPT ![c] = "recv"]
    /\ UNCHANGED <<crashed, nextSessionId, jobs, localId, lastResponse,
                   allocated, jobQueue, running, jobReport>>

\* handleClient: client_socket was moved into the writer, so
\* client_socket->receive(buffer) dereferences a null unique_ptr.  One outcome
\* of that undefined behaviour: the process crashes.
ReceiveCrash(c) ==
    /\ ~crashed
    /\ clientPc[c] = "recv"
    /\ crashed' = TRUE
    /\ UNCHANGED <<clientPc, nextSessionId, jobs, localId, lastResponse,
                   allocated, jobQueue, running, jobReport>>

\* handleClient leaves its loop: receive returned false, the writer is no
\* longer connected, or a Shutdown request arrived.
ReceiveEnd(c) ==
    /\ ~crashed
    /\ clientPc[c] = "recv"
    /\ clientPc' = [clientPc EXCEPT ![c] = "ended"]
    /\ UNCHANGED <<crashed, nextSessionId, jobs, localId, lastResponse,
                   allocated, jobQueue, running, jobReport>>

\* A Download request arrived; processMessage calls enqueueJob, whose
\* `sessionId = next_session_id_++` runs outside jobs_mutex_: first the read.
EnqueueRead(c) ==
    /\ ~crashed
    /\ clientPc[c] = "recv"
    /\ Len(allocated) < MaxJobs
    /\ localId' = [localId EXCEPT ![c] = nextSessionId]
    /\ allocated' = Append(allocated, nextSessionId)
    /\ clientPc' = [clientPc EXCEPT ![c] = "enq_incr"]
    /\ UNCHANGED <<crashed, nextSessionId, jobs, lastResponse,
                   jobQueue, running, jobReport>>

\* ... then the write-back of the incremented value.
EnqueueIncrement(c) ==
    /\ ~crashed
    /\ clientPc[c] = "enq_incr"
    /\ nextSessionId' = localId[c] + 1
    /\ clientPc' = [clientPc EXCEPT ![c] = "enq_insert"]
    /\ UNCHANGED <<crashed, jobs, localId, lastResponse,
                   allocated, jobQueue, running, jobReport>>

\* enqueueJob under jobs_mutex_: jobs_[sessionId] = {...}; the DownloadJob is
\* built and destroyed at the end of the scope ("In real impl, add to
\* job_worker_").
EnqueueInsert(c) ==
    /\ ~crashed
    /\ clientPc[c] = "enq_insert"
    /\ jobs' = MapPut(jobs, localId[c], NewJobInfo(localId[c], Url))
    /\ clientPc' = [clientPc EXCEPT ![c] = "respond"]
    /\ UNCHANGED <<crashed, nextSessionId, localId, lastResponse,
                   allocated, jobQueue, running, jobReport>>

\* processMessage: writer->writeDownloadResponse(next_session_id_ - 1), return
\* nullptr; back in handleClient: if (job) job_worker_->addJob(job).
WriteDownloadResponse(c) ==
    /\ ~crashed
    /\ clientPc[c] = "respond"
    /\ lastResponse' = [kind |-> "download", id |-> nextSessionId - 1, status |-> ""]
    /\ localId' = [localId EXCEPT ![c] = 0]
    /\ jobQueue' = IF ProcessMessageReturn # NoJob
                   THEN AddJob(jobQueue, ProcessMessageReturn) ELSE jobQueue
    /\ clientPc' = [clientPc EXCEPT ![c] = "recv"]
    /\ UNCHANGED <<crashed, nextSessionId, jobs, allocated, running, jobReport>>

\* processMessage, Status case, under jobs_mutex_: find the id, write the
\* status string or "Not found".
ProcessStatus(c, id) ==
    /\ ~crashed
    /\ clientPc[c] = "recv"
    /\ lastResponse' = [kind |-> "status", id |-> id, status |-> StatusReply(id)]
    /\ UNCHANGED <<crashed, clientPc, nextSessionId, jobs, localId,
                   allocated, jobQueue, running, jobReport>>

\* processMessage, default case (Abort, Unknown): return nullptr.
ProcessOther(c) ==
    /\ ~crashed
    /\ clientPc[c] = "recv"
    /\ UNCHANGED <<crashed, clientPc, nextSessionId, jobs, localId, lastResponse,
                   allocated, jobQueue, running, jobReport>>

\* Session ids of the jobs that reached the worker pool.
HandedToWorkers ==
    {jobQueue[i].sessionId : i \in 1..Len(jobQueue)}
        \cup {j.sessionId : j \in running}
        \cup DOMAIN jobReport

\* JobWorker::addJob called with the DownloadJob of an accepted session: the
\* pool's public entry, the call handleClient makes for a job processMessage
\* returns.
CallerAddJob(id) ==
    /\ ~crashed
    /\ id \in DOMAIN jobs
    /\ id \notin HandedToWorkers
    /\ jobQueue' = AddJob(jobQueue, [sessionId |-> id, url |-> jobs[id].url])
    /\ UNCHANGED <<crashed, clientPc, nextSessionId, jobs, localId, lastResponse,
                   allocated, running, jobReport>>

\* JobWorker::workerLoop, one of the NumWorkers threads that is not executing:
\* wait until the queue is not empty, pop its front.
WorkerTake ==
    /\ ~crashed
    /\ Cardinality(running) < NumWorkers
    /\ jobQueue # <<>>
    /\ running' = running \cup {Head(jobQueue)}
    /\ jobQueue' = Tail(jobQueue)
    /\ UNCHANGED <<crashed, clientPc, nextSessionId, jobs, localId, lastResponse,
                   allocated, jobReport>>

\* DownloadJob::execute: getFile, then writeStatusResponse(session_id_,
\* "Completed") when it returned CURLE_OK and "Failed" otherwise.
Execute(report, job, curlOk) ==
    MapPut(report, job.sessionId, IF curlOk THEN "Completed" ELSE "Failed")

\* workerLoop: job->execute(), then the job is destroyed.
WorkerExecute(job, curlOk) ==
    /\ ~crashed
    /\ job \in running
    /\ jobReport' = Execute(jobReport, job, curlOk)
    /\ running' = running \ {job}
    /\ UNCHANGED <<crashed, clientPc, nextSessionId, jobs, localId, lastResponse,
                   allocated, jobQueue>>

InitJobVars ==
    /\ crashed = FALSE
    /\ clientPc = [c \in Clients |-> "none"]
    /\ nextSessionId = 1
    /\ jobs = EmptyMap
    /\ localId = [c \in Clients |-> 0]
    /\ lastResponse = [kind |-> "none", id |-> 0, status |-> ""]
    /\ allocated = <<>>
    /\ jobQueue = <<>>
    /\ running = {}
    /\ jobReport = EmptyMap

(***************************************************************************)
(* TinyMCP DownloadTask: execute and cancel over HttpClient and            *)
(* SessionPersistence                                                      *)
(***************************************************************************)
\* Size of the downloaded resource, in chunks handed to WriteCallback.
TotalChunks == 2

\* DownloadSession::status values ("active", "paused", "completed", "failed").
SessionStatusValues == {"active", "paused", "completed", "failed"}

\* SessionPersistence::markSessionComplete.
MarkSessionComplete(sess) == [sess EXCEPT !.status = "completed"]

\* SessionPersistence::markSessionFailed.
MarkSessionFailed(sess) == [sess EXCEPT !.status = "failed"]

\* SessionPersistence::updateSessionProgress.
UpdateSessionProgress(sess, bytes) == [sess EXCEPT !.downloaded_bytes = bytes]

\* DownloadTask::cancel: abort_requested_ = true; http_client_->abort().
TaskCancel ==
    /\ taskAbortRequested' = TRUE
    /\ httpAbortRequested' = TRUE
    /\ cancelledRunning' = (cancelledRunning \/ taskPc \in {"transfer", "resume_transfer"})
    /\ UNCHANGED <<taskPc, isComplete, outputFile, downloadedBytes, session, curlRes,
                   executeResult, taskPath>>

\* HttpClient::downloadFile up to curl_easy_perform: abort_requested_ = false,
\* the output file is created (truncated); when it cannot be opened the
\* function returns false at once.
DownloadFileBegin(openOk) ==
    /\ httpAbortRequested' = FALSE
    /\ IF openOk
       THEN /\ outputFile' = "present"
            /\ downloadedBytes' = 0
            /\ taskPc' = "transfer"
       ELSE /\ taskPc' = "returned"
            /\ UNCHANGED <<outputFile, downloadedBytes>>
    /\ curlRes' = IF openOk THEN "none" ELSE "notrun"

\* DownloadTask::execute, entry: a session with downloaded_bytes > 0 is
\* resumed with resumeDownload, which appends to the existing file without a
\* progress callback and calls downloadFile when the file is gone; otherwise
\* a fresh downloadFile.
ExecuteStart(openOk) ==
    /\ taskPc = "idle"
    /\ IF session.downloaded_bytes > 0
       THEN /\ taskPath' = "resume"
            /\ IF outputFile = "present"
               THEN /\ IF openOk
                       THEN taskPc' = "resume_transfer" /\ curlRes' = "none"
                       ELSE taskPc' = "returned" /\ curlRes' = "notrun"
                    /\ downloadedBytes' = session.downloaded_bytes
                    /\ UNCHANGED <<httpAbortRequested, outputFile>>
               ELSE DownloadFileBegin(openOk)
       ELSE /\ taskPath' = "fresh"
            /\ DownloadFileBegin(openOk)
    /\ UNCHANGED <<taskAbortRequested, isComplete, session, executeResult,
                   cancelledRunning>>

\* HttpClient::WriteCallback: one more chunk written to the file.
WriteChunk ==
    /\ taskPc \in {"transfer", "resume_transfer"}
    /\ downloadedBytes < TotalChunks
    /\ downloadedBytes' = downloadedBytes + 1
    /\ UNCHANGED <<taskPc, httpAbortRequested, taskAbortRequested, isComplete,
                   outputFile, session, curlRes, executeResult, taskPath,
                   cancelledRunning>>

\* HttpClient::ProgressCallback (set by downloadFile only): returns 1 when
\* abort_requested_, which makes curl_easy_perform stop with
\* CURLE_ABORTED_BY_CALLBACK; otherwise DownloadTask::onProgressUpdate.
ProgressCallback ==
    /\ taskPc = "transfer"
    /\ IF httpAbortRequested
       THEN /\ curlRes' = "aborted"
            /\ taskPc' = "returned"
            /\ UNCHANGED <<session, isComplete>>
       ELSE /\ session' = UpdateSessionProgress(session, downloadedBytes)
            /\ isComplete' = (isComplete \/ downloadedBytes = TotalChunks)
            /\ UNCHANGED <<curlRes, taskPc>>
    /\ UNCHANGED <<httpAbortRequested, taskAbortRequested, outputFile, downloadedBytes,
                   executeResult, taskPath, cancelledRunning>>

\* curl_easy_perform returns by itself: CURLE_OK once every chunk is written,
\* or a transfer error at any point.
PerformEnd(res) ==
    /\ taskPc \in {"transfer", "resume_transfer"}
    /\ res = "ok" => downloadedBytes = TotalChunks
    /\ curlRes' = res
    /\ taskPc' = IF taskPc = "transfer" THEN "returned" ELSE "resume_returned"
    /\ UNCHANGED <<httpAbortRequested, taskAbortRequested, isComplete, outputFile,
                   downloadedBytes, session, executeResult, taskPath, cancelledRunning>>

\* HttpClient::downloadFile after curl_easy_perform: on res != CURLE_OK or
\* abort_requested_ the output file is removed and false is returned.
DownloadFileFailed == curlRes # "ok" \/ httpAbortRequested

\* downloadFile returns to DownloadTask::execute, which on the fresh branch
\* marks the session complete or failed ("Download failed") and on the resume
\* branch returns the result as it is.
ExecuteFinish ==
    /\ taskPc = "returned"
    /\ outputFile' = IF DownloadFileFailed /\ curlRes # "notrun" THEN "absent" ELSE outputFile
    /\ executeResult' = IF DownloadFileFailed THEN "false" ELSE "true"
    /\ IF taskPath = "fresh"
       THEN /\ session' = IF DownloadFileFailed THEN MarkSessionFailed(session)
                                                ELSE MarkSessionComplete(session)
            /\ isComplete' = (isComplete \/ ~DownloadFileFailed)
       ELSE UNCHANGED <<session, isComplete>>
    /\ taskPc' = "done"
    /\ UNCHANGED <<httpAbortRequested, taskAbortRequested, downloadedBytes, curlRes,
                   taskPath, cancelledRunning>>

\* HttpClient::resumeDownload returns res == CURLE_OK; execute returns it.
ResumeFinish ==
    /\ taskPc = "resume_returned"
    /\ executeResult' = IF curlRes = "ok" THEN "true" ELSE "false"
    /\ taskPc' = "done"
    /\ UNCHANGED <<httpAbortRequested, taskAbortRequested, isComplete, outputFile,
                   downloadedBytes, session, curlRes, taskPath, cancelledRunning>>

\* After construction, with the session and the output file as given.
InitTask(savedBytes, file) ==
    /\ taskPc = "idle"
    /\ httpAbortRequested = FALSE
    /\ taskAbortRequested = FALSE
    /\ isComplete = FALSE
    /\ session = [status |-> "active", downloaded_bytes |-> savedBytes]
    /\ outputFile = file
    /\ downloadedBytes = 0
    /\ curlRes = "none"
    /\ executeResult = "none"
    /\ taskPath = "none"
    /\ cancelledRunning = FALSE

\* A task made without a session id: createSession gives a new "active"
\* session with nothing downloaded.
InitTaskVars == InitTask(0, "absent")

\* A task made for a new session, or for an earlier one that has part of the
\* file on disk or has lost it.
InitTaskAny ==
    \E savedBytes \in 0..(TotalChunks - 1), file \in {"absent", "present"} :
        /\ savedBytes = 0 => file = "absent"
        /\ InitTask(savedBytes, file)

NextTask ==
    \/ TaskCancel /\ UNCHANGED taskFrame
    \/ \E openOk \in BOOLEAN : ExecuteStart(openOk) /\ UNCHANGED taskFrame
    \/ WriteChunk /\ UNCHANGED taskFrame
    \/ ProgressCallback /\ UNCHANGED taskFrame
    \/ \E res \in {"ok", "error"} : PerformEnd(res) /\ UNCHANGED taskFrame
    \/ ExecuteFinish /\ UNCHANGED taskFrame
    \/ ResumeFinish /\ UNCHANGED taskFrame

(***************************************************************************)
(* WebGrab client-side APIs: WebGrabClientWrapper / MCP DownloadTask and   *)
(* the C API wg_download                                                   *)
(***************************************************************************)
Apis == {"mcp", "capi"}

\* WebGrabClientWrapper::download: sessionId = 0 ("Placeholder"), then
\* client->executeDownload(url); the out-parameter keeps the 0 whatever the
\* server answered.
WrapperDownload(serverId) == 0

\* MCP DownloadTask::Execute: uint32_t sessionId = 0; clientWrapper->download(
\* strUrl, sessionId); the result text carries std::to_string(sessionId).
DownloadTaskExecute(serverId) == WrapperDownload(serverId)

\* wg_download: *out_session_id = 1 ("Placeholder"), then executeDownload(url).
WgDownload(serverId) == 1

\* A download call through an API returns: executeDownload had the server
\* handle a Download request; with the server's response written, the API
\* reports its session id to the caller.
ApiDownloadReturn(c, api) ==
    /\ WriteDownloadResponse(c)
    /\ apiReport' = [api |-> api,
                     engine |-> localId[c],
                     reported |-> IF api = "mcp" THEN DownloadTaskExecute(nextSessionId - 1)
                                                 ELSE WgDownload(nextSessionId - 1)]

InitApiVars == apiReport = [api |-> "none", engine |-> 0, reported |-> 0]

\* The job engine driven through the client-side APIs.
NextApi ==
    \/ \E c \in Clients : AcceptClient(c) /\ UNCHANGED jobFrame
    \/ \E c \in Clients : EnqueueRead(c) /\ UNCHANGED jobFrame
    \/ \E c \in Clients : EnqueueIncrement(c) /\ UNCHANGED jobFrame
    \/ \E c \in Clients : EnqueueInsert(c) /\ UNCHANGED jobFrame
    \/ \E c \in Clients, api \in Apis : ApiDownloadReturn(c, api) /\ UNCHANGED apiFrame
    \/ \E c \in Clients, id \in SessionIds : ProcessStatus(c, id) /\ UNCHANGED jobFrame

(***************************************************************************)
(* Context store: ContextManager (session contexts) over                   *)
(* FileContextPersistence                                                  *)
(***************************************************************************)
\* Number of threads calling addCommandToHistory.
NumCtxThreads == 2
\* Number of addCommandToHistory calls each of them makes.
MaxAddCalls == 1
\* Minutes the clock advances in a run.
MaxNow == 2
\* "keep last 50 commands".
HistoryLimit == 50
\* SessionContext::isActive: "Active for 30 minutes".
ActiveMinutes == 30

CtxThreads == 1..NumCtxThreads
\* Session ids generateSessionId may give ("sess_" and 16 hex digits).
CtxIds == {"sess_1"}
\* The sessionId deserializeSessionContext gives to every context it parses.
ParsedSessionId == "parsed_session_id"
AllCtxIds == CtxIds \cup {ParsedSessionId}

\* A history entry: the addCommandToHistory call that supplied it (thread and
\* call number); by = 0 marks an entry of an earlier run.
OldEntry(i) == [by |-> 0, n |-> i]
FullHistory == [i \in 1..HistoryLimit |-> OldEntry(i)]

\* struct SessionContext (createdAt, lastParameters left out).
MakeSessionContext(id, user, iface, accessed) ==
    [sessionId |-> id, userId |-> user, interfaceType |-> iface,
     lastAccessed |-> accessed, commandHistory |-> <<>>, responseHistory |-> <<>>,
     variables |-> EmptyMap, lastIntent |-> "", lastUsedService |-> "",
     serviceState |-> EmptyMap]

\* FileContextPersistence::serializeSessionContext: the fields written to the
\* file; serviceState (and lastParameters) are not among them.
SerializeSessionContext(ctx) ==
    [sessionId |-> ctx.sessionId, userId |-> ctx.userId,
     interfaceType |-> ctx.interfaceType, lastAccessed |-> ctx.lastAccessed,
     lastIntent |-> ctx.lastIntent, lastUsedService |-> ctx.lastUsedService,
     commandHistory |-> ctx.commandHistory, responseHistory |-> ctx.responseHistory,
     variables |-> ctx.variables]

\* FileContextPersistence::deserializeSessionContext: "simplified JSON
\* parsing": the data is ignored, five fields get fixed values, the others
\* stay as in the (default-constructed) context passed in.
DeserializeSessionContext(data, time) ==
    MakeSessionContext(ParsedSessionId, "parsed_user_id", "text", time)

\* FileContextPersistence::saveSessionContext: writes sessions/<sessionId>.json;
\* returns false, the file untouched, when it cannot be opened.
SaveSessionContext(files, ctx, ok) ==
    IF ok THEN MapPut(files, ctx.sessionId, SerializeSessionContext(ctx)) ELSE files

\* ContextManager::cacheSessionContext: sessionsCache[context.sessionId] = context.
CacheSessionContext(cache, ctx) == MapPut(cache, ctx.sessionId, ctx)

\* ContextManager::touchSession.
TouchSession(cache, id, time) ==
    IF id \in DOMAIN cache THEN [cache EXCEPT ![id].lastAccessed = time] ELSE cache

\* SessionContext::isActive at the given time.
IsActive(ctx, time) == time - ctx.lastAccessed < ActiveMinutes

\* std::lock_guard on sessionsMutex can be taken.
MutexFree_unlocked == TRUE
MutexFree == sessionsMutex = 0

NoWrite == [op |-> "none", id |-> ""]
NoGet == [id |-> "", found |-> FALSE, hit |-> FALSE, context |-> <<>>]

\* ContextManager::createSession.
CreateSession(id, saveOk) ==
    /\ MutexFree
    /\ LET context == MakeSessionContext(id, "user", "voice", now)
       IN /\ sessionFiles' = SaveSessionContext(sessionFiles, context, saveOk)
          /\ sessionsCache' = IF saveOk THEN CacheSessionContext(sessionsCache, context)
                                        ELSE sessionsCache
    /\ lastWrite' = [op |-> "createSession", id |-> id]
    /\ lastGet' = NoGet
    /\ UNCHANGED <<now, sessionsMutex, addPc, addArg, addCalls>>

\* ContextManager::updateSession: the context given is saved and cached as it
\* is, under context.sessionId.
UpdateSession(context, saveOk) ==
    /\ MutexFree
    /\ sessionFiles' = SaveSessionContext(sessionFiles, context, saveOk)
    /\ sessionsCache' = IF saveOk THEN CacheSessionContext(sessionsCache, context)
                                  ELSE sessionsCache
    /\ lastWrite' = [op |-> "updateSession", id |-> context.sessionId]
    /\ lastGet' = NoGet
    /\ UNCHANGED <<now, sessionsMutex, addPc, addArg, addCalls>>

\* ContextManager::getSessionContext: cache first, then the file.
GetSessionContext(id) ==
    /\ MutexFree
    /\ IF id \in DOMAIN sessionsCache
       THEN /\ sessionsCache' = TouchSession(sessionsCache, id, now)
            /\ lastGet' = [id |-> id, found |-> TRUE, hit |-> TRUE,
                           context |-> <<sessionsCache[id]>>]
       ELSE IF id \in DOMAIN sessionFiles
            THEN LET context == DeserializeSessionContext(sessionFiles[id], now)
                 IN /\ sessionsCache' =
                          TouchSession(CacheSessionContext(sessionsCache, context), id, now)
                    /\ lastGet' = [id |-> id, found |-> TRUE, hit |-> FALSE,
                                   context |-> <<context>>]
            ELSE /\ lastGet' = [id |-> id, found |-> FALSE, hit |-> FALSE,
                                 context |-> <<>>]
                 /\ UNCHANGED sessionsCache
    /\ lastWrite' = NoWrite
    /\ UNCHANGED <<sessionFiles, now, sessionsMutex, addPc, addArg, addCalls>>

\* ContextManager::deleteSession.
DeleteSession(id) ==
    /\ MutexFree
    /\ sessionsCache' = MapErase(sessionsCache, id)
    /\ sessionFiles' = MapErase(sessionFiles, id)
    /\ lastWrite' = NoWrite
    /\ lastGet' = NoGet
    /\ UNCHANGED <<now, sessionsMutex, addPc, addArg, addCalls>>

\* ContextManager::cleanupExpiredSessions: the cached sessions that are not
\* active are removed from the cache and their files deleted.
CleanupExpiredSessions ==
    /\ MutexFree
    /\ LET expiredSessions == {id \in DOMAIN sessionsCache :
                                  ~IsActive(sessionsCache[id], now)}
       IN /\ sessionsCache' = [id \in DOMAIN sessionsCache \ expiredSessions |->
                                  sessionsCache[id]]
          /\ sessionFiles' = [id \in DOMAIN sessionFiles \ expiredSessions |->
                                  sessionFiles[id]]
    /\ lastWrite' = NoWrite
    /\ lastGet' = NoGet
    /\ UNCHANGED <<now, sessionsMutex, addPc, addArg, addCalls>>

\* ContextManager::setSessionVariable.
SetSessionVariable(id, key, value, saveOk) ==
    /\ MutexFree
    /\ IF id \in DOMAIN sessionsCache
       THEN LET context == [sessionsCache[id] EXCEPT
                               !.variables = MapPut(@, key, value),
                               !.lastAccessed = now]
            IN /\ sessionsCache' = [sessionsCache EXCEPT ![id] = context]
               /\ sessionFiles' = SaveSessionContext(sessionFiles, context, saveOk)
       ELSE UNCHANGED <<sessionsCache, sessionFiles>>
    /\ lastWrite' = [op |-> "setSessionVariable", id |-> id]
    /\ lastGet' = NoGet
    /\ UNCHANGED <<now, sessionsMutex, addPc, addArg, addCalls>>

UpdateLastIntent_upsert(id, intent, saveOk) ==
    /\ MutexFree
    /\ LET found == IF id \in DOMAIN sessionsCache THEN sessionsCache[id]
                    ELSE MakeSessionContext(id, "user", "voice", now)
           context == [found EXCEPT !.lastIntent = intent, !.lastAccessed = now]
       IN /\ sessionsCache' = CacheSessionContext(sessionsCache, context)
          /\ sessionFiles' = SaveSessionContext(sessionFiles, context, saveOk)
    /\ lastWrite' = [op |-> "updateLastIntent", id |-> id]
    /\ lastGet' = NoGet
    /\ UNCHANGED <<now, sessionsMutex, addPc, addArg, addCalls>>

\* ContextManager::updateLastIntent.
UpdateLastIntent(id, intent, saveOk) ==
    /\ MutexFree
    /\ IF id \in DOMAIN sessionsCache
       THEN LET context == [sessionsCache[id] EXCEPT
                               !.lastIntent = intent, !.lastAccessed = now]
            IN /\ sessionsCache' = [sessionsCache EXCEPT ![id] = context]
               /\ sessionFiles' = SaveSessionContext(sessionFiles, context, saveOk)
       ELSE UNCHANGED <<sessionsCache, sessionFiles>>
    /\ lastWrite' = [op |-> "updateLastIntent", id |-> id]
    /\ lastGet' = NoGet
    /\ UNCHANGED <<now, sessionsMutex, addPc, addArg, addCalls>>

\* ContextManager::updateServiceState, for a state map of one entry:
\* serviceState[serviceName + "." + key] = value.
UpdateServiceState(id, serviceName, key, value, saveOk) ==
    /\ MutexFree
    /\ IF id \in DOMAIN sessionsCache
       THEN LET context == [sessionsCache[id] EXCEPT
                               !.lastUsedService = serviceName,
                               !.serviceState = MapPut(@, serviceName \o "." \o key, value),
                               !.lastAccessed = now]
            IN /\ sessionsCache' = [sessionsCache EXCEPT ![id] = context]
               /\ sessionFiles' = SaveSessionContext(sessionFiles, context, saveOk)
       ELSE UNCHANGED <<sessionsCache, sessionFiles>>
    /\ lastWrite' = [op |-> "updateServiceState", id |-> id]
    /\ lastGet' = NoGet
    /\ UNCHANGED <<now, sessionsMutex, addPc, addArg, addCalls>>

\* ContextManager::addCommandToHistory, entry: thread t takes sessionsMutex.
AddLockUpTo(t, id, cap) ==
    /\ addPc[t] = "idle"
    /\ addCalls[t] < cap
    /\ MutexFree
    /\ sessionsMutex' = t
    /\ addPc' = [addPc EXCEPT ![t] = "locked"]
    /\ addCalls' = [addCalls EXCEPT ![t] = @ + 1]
    /\ addArg' = [addArg EXCEPT ![t] = [id |-> id, call |-> [by |-> t, n |-> addCalls[t] + 1]]]
    /\ lastWrite' = NoWrite
    /\ lastGet' = NoGet
    /\ UNCHANGED <<sessionsCache, sessionFiles, now>>

\* A thread makes at most MaxAddCalls calls.
AddLock(t, id) == AddLockUpTo(t, id, MaxAddCalls)

\* addCommandToHistory: sessionsCache.find(sessionId); when found,
\* commandHistory.push_back(command); otherwise the call returns.
AddPushCommand(t) ==
    /\ addPc[t] = "locked"
    /\ IF addArg[t].id \in DOMAIN sessionsCache
       THEN /\ sessionsCache' = [sessionsCache EXCEPT
                   ![addArg[t].id].commandHistory = Append(@, addArg[t].call)]
            /\ addPc' = [addPc EXCEPT ![t] = "pushed_command"]
            /\ UNCHANGED sessionsMutex
       ELSE /\ addPc' = [addPc EXCEPT ![t] = "idle"]
            /\ sessionsMutex' = 0
            /\ UNCHANGED sessionsCache
    /\ UNCHANGED <<sessionFiles, now, addArg, addCalls, lastGet, lastWrite>>

\* addCommandToHistory: responseHistory.push_back(response).
AddPushResponse(t) ==
    /\ addPc[t] = "pushed_command"
    /\ sessionsCache' =
          IF addArg[t].id \in DOMAIN sessionsCache
          THEN [sessionsCache EXCEPT
                   ![addArg[t].id].responseHistory = Append(@, addArg[t].call)]
          ELSE sessionsCache
    /\ addPc' = [addPc EXCEPT ![t] = "pushed_response"]
    /\ UNCHANGED <<sessionFiles, now, sessionsMutex, addArg, addCalls, lastGet, lastWrite>>

\* The histories after "if (commandHistory.size() > 50) erase(begin())" on both.
TrimHistory_newest(ctx) ==
    IF Len(ctx.commandHistory) > HistoryLimit
    THEN [ctx EXCEPT !.commandHistory = SubSeq(@, 1, Len(@) - 1),
                     !.responseHistory = SubSeq(@, 1, Len(@) - 1)]
    ELSE ctx
TrimHistory(ctx) ==
    IF Len(ctx.commandHistory) > HistoryLimit
    THEN [ctx EXCEPT !.commandHistory = Tail(@),
                     !.responseHistory = IF @ = <<>> THEN @ ELSE Tail(@)]
    ELSE ctx

\* addCommandToHistory, end: trim, lastAccessed = now, saveSessionContext (its
\* result is not looked at), the lock is released.
AddTrimSave(t, saveOk) ==
    /\ addPc[t] = "pushed_response"
    /\ IF addArg[t].id \in DOMAIN sessionsCache
       THEN LET context == [TrimHistory(sessionsCache[addArg[t].id]) EXCEPT
                               !.lastAccessed = now]
            IN /\ sessionsCache' = [sessionsCache EXCEPT ![addArg[t].id] = context]
               /\ sessionFiles' = SaveSessionContext(sessionFiles, context, saveOk)
       ELSE UNCHANGED <<sessionsCache, sessionFiles>>
    /\ addPc' = [addPc EXCEPT ![t] = "idle"]
    /\ sessionsMutex' = 0
    /\ lastWrite' = [op |-> "addCommandToHistory", id |-> addArg[t].id]
    /\ UNCHANGED <<now, addArg, addCalls, lastGet>>

\* A minute passes.
ClockTick ==
    /\ now < MaxNow
    /\ now' = now + 1
    /\ lastWrite' = NoWrite
    /\ UNCHANGED <<sessionsCache, sessionFiles, sessionsMutex, addPc, addArg, addCalls,
                   lastGet>>

\* The process ends and a new ContextManager is made over the same data
\* directory: the caches are empty, the files stay.
ContextManagerRestart ==
    /\ MutexFree
    /\ \A t \in CtxThreads : addPc[t] = "idle"
    /\ sessionsCache # EmptyMap
    /\ sessionsCache' = EmptyMap
    /\ lastWrite' = NoWrite
    /\ lastGet' = NoGet
    /\ UNCHANGED <<sessionFiles, now, sessionsMutex, addPc, addArg, addCalls>>

InitCtxVars ==
    /\ sessionsCache = EmptyMap
    /\ sessionFiles = EmptyMap
    /\ now = 0
    /\ sessionsMutex = 0
    /\ addPc = [t \in CtxThreads |-> "idle"]
    /\ addArg = [t \in CtxThreads |-> [id |-> "", call |-> OldEntry(0)]]
    /\ addCalls = [t \in CtxThreads |-> 0]
    /\ lastGet = NoGet
    /\ lastWrite = NoWrite

\* Contexts a caller passes to updateSession: one it got from the store
\* earlier (histories empty or full), with lastAccessed now or 31 minutes
\* back, or one whose two histories differ in length.
PairedContexts ==
    {[MakeSessionContext(id, "user", "voice", accessed) EXCEPT
         !.commandHistory = h, !.responseHistory = h] :
       id \in CtxIds, accessed \in {now, now - (ActiveMinutes + 1)},
       h \in {<<>>, FullHistory}}
UnpairedContexts ==
    {[MakeSessionContext(id, "user", "voice", now) EXCEPT
         !.commandHistory = <<OldEntry(1)>>] : id \in CtxIds}

\* The public session operations, called one at a time by one thread.
NextContext ==
    \/ \E id \in CtxIds, saveOk \in BOOLEAN : CreateSession(id, saveOk) /\ UNCHANGED ctxFrame
    \/ \E context \in PairedContexts \cup UnpairedContexts, saveOk \in BOOLEAN :
          UpdateSession(context, saveOk) /\ UNCHANGED ctxFrame
    \/ \E id \in AllCtxIds : GetSessionContext(id) /\ UNCHANGED ctxFrame
    \/ \E id \in AllCtxIds : DeleteSession(id) /\ UNCHANGED ctxFrame
    \/ CleanupExpiredSessions /\ UNCHANGED ctxFrame
    \/ \E id \in CtxIds, saveOk \in BOOLEAN :
          SetSessionVariable(id, "k", "v", saveOk) /\ UNCHANGED ctxFrame
    \/ \E id \in CtxIds, saveOk \in BOOLEAN :
          UpdateLastIntent(id, "play", saveOk) /\ UNCHANGED ctxFrame
    \/ \E id \in CtxIds, saveOk \in BOOLEAN :
          UpdateServiceState(id, "audio", "vol", "1", saveOk) /\ UNCHANGED ctxFrame
    \/ \E id \in CtxIds : AddLock(1, id) /\ UNCHANGED ctxFrame
    \/ AddPushCommand(1) /\ UNCHANGED ctxFrame
    \/ AddPushResponse(1) /\ UNCHANGED ctxFrame
    \/ \E saveOk \in BOOLEAN : AddTrimSave(1, saveOk) /\ UNCHANGED ctxFrame
    \/ ClockTick /\ UNCHANGED ctxFrame
    \/ ContextManagerRestart /\ UNCHANGED ctxFrame

\* Threads calling addCommandToHistory concurrently on sessions that were
\* created, or updated with a context got from the store.
NextContextConcurrent ==
    \/ \E id \in CtxIds : CreateSession(id, TRUE) /\ UNCHANGED ctxFrame
    \/ \E context \in PairedContexts : UpdateSession(context, TRUE) /\ UNCHANGED ctxFrame
    \/ \E id \in AllCtxIds : GetSessionContext(id) /\ UNCHANGED ctxFrame
    \/ \E t \in CtxThreads, id \in CtxIds : AddLock(t, id) /\ UNCHANGED ctxFrame
    \/ \E t \in CtxThreads : AddPushCommand(t) /\ UNCHANGED ctxFrame
    \/ \E t \in CtxThreads : AddPushResponse(t) /\ UNCHANGED ctxFrame
    \/ \E t \in CtxThreads, saveOk \in BOOLEAN : AddTrimSave(t, saveOk) /\ UNCHANGED ctxFrame

\* Calls one thread makes on one session when the history is to overflow.
HistoryCalls == HistoryLimit + 2

\* One thread creates a session and then calls addCommandToHistory on it
\* HistoryCalls times.
NextHistory ==
    \/ \E saveOk \in BOOLEAN :
          /\ "sess_1" \notin DOMAIN sessionsCache
          /\ CreateSession("sess_1", saveOk)
          /\ UNCHANGED ctxFrame
    \/ /\ "sess_1" \in DOMAIN sessionsCache
       /\ AddLockUpTo(1, "sess_1", HistoryCalls)
       /\ UNCHANGED ctxFrame
    \/ AddPushCommand(1) /\ UNCHANGED ctxFrame
    \/ AddPushResponse(1) /\ UNCHANGED ctxFrame
    \/ AddTrimSave(1, TRUE) /\ UNCHANGED ctxFrame

\* The last m of the calls 1..n of thread t, in call order.
LastCalls(t, n, m) == [i \in 1..m |-> [by |-> t, n |-> n - m + i]]

\* C29: after n calls of addCommandToHistory on a cached session that started
\* with empty histories, commandHistory and responseHistory hold exactly the
\* last min(n, 50) commands and responses in call order.
C29_FifoTrim ==
    (sessionsMutex = 0 /\ "sess_1" \in DOMAIN sessionsCache) =>
        LET n == addCalls[1]
            m == IF n < HistoryLimit THEN n ELSE HistoryLimit
            context == sessionsCache["sess_1"]
        IN  /\ context.commandHistory = LastCalls(1, n, m)
            /\ context.responseHistory = LastCalls(1, n, m)

\* More than 50 calls were made: the two oldest entries are gone.
C29_Witness ==
    /\ sessionsMutex = 0
    /\ addCalls[1] = HistoryLimit + 2
    /\ "sess_1" \in DOMAIN sessionsCache
    /\ Len(sessionsCache["sess_1"].commandHistory) = HistoryLimit
    /\ sessionsCache["sess_1"].commandHistory[1] = [by |-> 1, n |-> 3]

(***************************************************************************)
(* Orchestrator facade: processCommand(text, sessionId) over ContextManager *)
(***************************************************************************)
\* processCommand calls made in a run.
MaxCommands == 2
CommandTexts == {"zxqv plugh"}

\* What processCommand compares of a session: the fields of the cached context,
\* or of the saved file when the session is not cached.
SessionSnapshot(id) ==
    IF id \in DOMAIN sessionsCache
    THEN [lastIntent |-> sessionsCache[id].lastIntent,
          lastUsedService |-> sessionsCache[id].lastUsedService,
          serviceState |-> sessionsCache[id].serviceState,
          commandHistory |-> sessionsCache[id].commandHistory,
          responseHistory |-> sessionsCache[id].responseHistory]
    ELSE [lastIntent |-> sessionFiles[id].lastIntent,
          lastUsedService |-> sessionFiles[id].lastUsedService,
          serviceState |-> EmptyMap,
          commandHistory |-> sessionFiles[id].commandHistory,
          responseHistory |-> sessionFiles[id].responseHistory]

NoCommand == [id |-> "", text |-> "", low |-> FALSE, response |-> "", before |-> <<>>]

\* processCommand, step 1: load the SessionContext of an existing session
\* (ContextManager::getSessionContext).
ProcessLoad(text, id) ==
    /\ orchPc \in {"idle", "returned"}
    /\ addCalls[1] < MaxCommands
    /\ id \in DOMAIN sessionsCache \cup DOMAIN sessionFiles
    /\ GetSessionContext(id)
    /\ orchCall' = [id |-> id, text |-> text, low |-> FALSE, response |-> "",
                    before |-> <<SessionSnapshot(id)>>]
    /\ orchPc' = "loaded"

\* processCommand, steps 3-5: classify; low: the confidence is below 0.4 and
\* the response is "I didn't understand: <text>"; otherwise the command is routed.
ProcessClassify(low) ==
    /\ orchPc = "loaded"
    /\ orchCall' = [orchCall EXCEPT
                       !.low = low,
                       !.response = IF low THEN "I didn't understand: " \o orchCall.text
                                           ELSE "routed"]
    /\ orchPc' = IF low THEN "append" ELSE "update"
    /\ UNCHANGED ctxVars

\* processCommand, step 6 for a routed command: update lastIntent
\* (ContextManager::updateLastIntent).
ProcessUpdateIntent(saveOk) ==
    /\ orchPc = "update"
    /\ UpdateLastIntent(orchCall.id, "play_music", saveOk)
    /\ orchPc' = "append"
    /\ UNCHANGED orchCall

\* processCommand: append (text, response) to the histories
\* (ContextManager::addCommandToHistory, entry).
ProcessAppend ==
    /\ orchPc = "append"
    /\ AddLockUpTo(1, orchCall.id, MaxCommands)
    /\ orchPc' = "appending"
    /\ UNCHANGED orchCall

\* processCommand, step 7: addCommandToHistory has returned; return response.
ProcessReturn ==
    /\ orchPc = "appending"
    /\ addPc[1] = "idle"
    /\ orchPc' = "returned"
    /\ UNCHANGED <<orchCall, ctxVars>>

InitOrchVars ==
    /\ orchPc = "idle"
    /\ orchCall = NoCommand

\* No processCommand call is in progress.
OrchIdle == orchPc \in {"idle", "returned"}

NextOrchestrator ==
    \/ \E saveOk \in BOOLEAN :
          OrchIdle /\ CreateSession("sess_1", saveOk) /\ UNCHANGED <<ctxFrame, orchVars>>
    \/ OrchIdle /\ ContextManagerRestart /\ UNCHANGED <<ctxFrame, orchVars>>
    \/ \E saveOk \in BOOLEAN :
          /\ OrchIdle
          /\ UpdateServiceState("sess_1", "audio", "volume", "75", saveOk)
          /\ UNCHANGED <<ctxFrame, orchVars>>
    \/ \E text \in CommandTexts, id \in CtxIds : ProcessLoad(text, id) /\ UNCHANGED orchFrame
    \/ \E low \in BOOLEAN : ProcessClassify(low) /\ UNCHANGED orchFrame
    \/ \E saveOk \in BOOLEAN : ProcessUpdateIntent(saveOk) /\ UNCHANGED orchFrame
    \/ ProcessAppend /\ UNCHANGED orchFrame
    \/ AddPushCommand(1) /\ UNCHANGED <<ctxFrame, orchVars>>
    \/ AddPushResponse(1) /\ UNCHANGED <<ctxFrame, orchVars>>
    \/ \E saveOk \in BOOLEAN : AddTrimSave(1, saveOk) /\ UNCHANGED <<ctxFrame, orchVars>>
    \/ ProcessReturn /\ UNCHANGED orchFrame

\* C26: when the classification confidence is below 0.4, processCommand returns
\* "I didn't understand: <text>", leaves the session's lastIntent,
\* lastUsedService and serviceState as they were, and extends commandHistory
\* and responseHistory by exactly one pair.
C26_LowConfidenceRejected ==
    [][(orchPc = "appending" /\ orchPc' = "returned" /\ orchCall'.low) =>
         /\ orchCall'.response = "I didn't understand: " \o orchCall'.text
         /\ orchCall'.id \in DOMAIN sessionsCache'
         /\ LET context == sessionsCache'[orchCall'.id]
                before == orchCall'.before[1]
                n == Len(before.commandHistory)
            IN  /\ context.lastIntent = before.lastIntent
                /\ context.lastUsedService = before.lastUsedService
                /\ context.serviceState = before.serviceState
                /\ Len(context.commandHistory) = n + 1
                /\ Len(context.responseHistory) = n + 1
                /\ SubSeq(context.commandHistory, 1, n) = before.commandHistory
                /\ SubSeq(context.responseHistory, 1, n) = before.responseHistory
                /\ context.commandHistory[n + 1] = context.responseHistory[n + 1]
      ]_vars

(***************************************************************************)
(* tinymcp Server: request dispatch                                        *)
(***************************************************************************)
\* Request ids the peers use.
RequestIds == {"1", "2"}
\* The methods the protocol names as built in.
BuiltinMethods == {"initialize", "tools/list", "tools/call", "resources/list",
                   "resources/read", "prompts/list", "prompts/get",
                   "logging/setLevel", "shutdown"}
\* A method no document names.
UnknownMethods == {"foo/bar"}
\* The methods Server::onRequest has a branch for.
DispatchedMethods == {"initialize", "tools/list", "tools/call", "resources/list",
                      "resources/read"}
\* params["name"] of a request: a tool name, an unregistered one, or "" (absent).
CallNames == ToolNames \cup {"nosuch", ""}
\* params["arguments"] of a tools/call request: the set of members present.
CallArguments == {{}, {"x"}}
ResourceUris == {"res://a"}
\* params["uri"] of a request: a uri, an unregistered one, or "" (absent).
ReadUris == ResourceUris \cup {"res://nosuch", ""}
\* Resource::mimeType: empty or set.
MimeTypes == {"", "text/plain"}

\* class Resource: uri, name, description, mimeType (contentProvider left empty).
Resource == [uri : ResourceUris, name : {"a"}, description : {""},
             mimeType : MimeTypes]

\* class Request: method, id, and the params a handler reads.
ServerRequests ==
    [method : (DispatchedMethods \ {"tools/call", "resources/read"}) \cup
              (BuiltinMethods \ DispatchedMethods) \cup UnknownMethods,
     id : RequestIds, name : {""}, uri : {""}, arguments : {{}}]
    \cup [method : {"tools/call"}, id : RequestIds, name : CallNames, uri : {""},
          arguments : CallArguments]
    \cup [method : {"resources/read"}, id : RequestIds, name : {""}, uri : ReadUris,
          arguments : {{}}]

\* An empty std::function.
NoHandler == "none"
\* The tools registered with a serving server: one built by Tool(name,
\* description) alone (null inputSchema), one with a schema and an empty
\* handler, one with a schema and a callable.
ServerTools ==
    {[name |-> "echo", description |-> "d1",
      inputSchema |-> [isNull |-> TRUE, required |-> {}], handler |-> "h1"],
     [name |-> "echo", description |-> "d1",
      inputSchema |-> [isNull |-> FALSE, required |-> {"x"}], handler |-> NoHandler],
     [name |-> "sum", description |-> "d2",
      inputSchema |-> [isNull |-> FALSE, required |-> {"x"}], handler |-> "h1"]}

\* Json::Value(): null.
JsonNull == EmptyMap

\* Tool::toJson: name and description, inputSchema only when it is not null.
ToolToJson(tool) ==
    IF ~tool.inputSchema.isNull
    THEN [name |-> tool.name, description |-> tool.description,
          inputSchema |-> tool.inputSchema]
    ELSE [name |-> tool.name, description |-> tool.description]

\* Resource::toJson: uri and name; description and mimeType only when not empty.
ResourceToJson(res) ==
    IF res.mimeType # ""
    THEN [uri |-> res.uri, name |-> res.name, mimeType |-> res.mimeType]
    ELSE [uri |-> res.uri, name |-> res.name]

\* Iteration order of std::map<std::string, Tool>: by key.
ToolNameOrder == <<"echo", "sum">>

\* ToolRegistry::getAllTools: the mapped values in key order.
GetAllTools(reg) ==
    LET present == SelectSeq(ToolNameOrder, LAMBDA n : n \in DOMAIN reg)
    IN  [i \in 1..Len(present) |-> reg[present[i]]]

\* ResourceRegistry::getAllResources: the mapped values in key order (one uri).
GetAllResources(reg) ==
    IF "res://a" \in DOMAIN reg THEN <<reg["res://a"]>> ELSE <<>>

\* Server::handleInitialize.
HandleInitialize(request) ==
    [result |-> [protocolVersion |-> "0.1.0", serverInfo |-> "config"],
     error |-> JsonNull]

\* Server::handleListTools: result["tools"] = toJson() of every tool of getTools().
HandleListTools(request) ==
    LET all == GetAllTools(tools)
    IN  [result |-> [tools |-> [i \in 1..Len(all) |-> ToolToJson(all[i])]],
         error |-> JsonNull]

\* Tool::validate: no schema, or every member of "required" is in arguments.
ToolValidate(tool, arguments) ==
    \/ tool.inputSchema.isNull
    \/ tool.inputSchema.required \subseteq arguments

\* Server::handleCallTool from `if (tool->handler)` on, for the Tool that `tool`
\* points to; throws: the handler call throws std::exception.
InvokeTool(tool, throws) ==
    IF tool.handler # NoHandler
    THEN IF throws
         THEN [result |-> JsonNull,
               error |-> [code |-> -32603, message |-> "what"]]
         ELSE [result |-> [by |-> tool.handler], error |-> JsonNull]
    ELSE [result |-> JsonNull,
          error |-> [code |-> -32603,
                     message |-> "Tool handler not implemented"]]

\* Server::handleCallTool: getTool(toolName), then the handler; the arguments
\* are passed to the handler as they came.
HandleCallTool(request, throws) ==
    IF request.name \notin DOMAIN tools
    THEN [result |-> JsonNull,
          error |-> [code |-> -32602,
                     message |-> "Tool not found: " \o request.name]]
    ELSE InvokeTool(tools[request.name], throws)

\* No handler was invoked.
NoInvocation == [invoked |-> FALSE, handler |-> NoHandler, threw |-> FALSE]

\* The handler call InvokeTool makes for tool, if any.
Invocation(tool, throws) ==
    IF tool.handler # NoHandler
    THEN [invoked |-> TRUE, handler |-> tool.handler, threw |-> throws]
    ELSE NoInvocation

\* Server::handleListResources.
HandleListResources(request) ==
    LET all == GetAllResources(resources)
    IN  [result |-> [resources |-> [i \in 1..Len(all) |-> ResourceToJson(all[i])]],
         error |-> JsonNull]

\* Server::handleReadResource.
HandleReadResource(request) ==
    IF request.uri \notin DOMAIN resources
    THEN [result |-> JsonNull,
          error |-> [code |-> -32602,
                     message |-> "Resource not found: " \o request.uri]]
    ELSE [result |-> [contents |-> [uri |-> request.uri, text |-> "",
                                    mimeType |-> resources[request.uri].mimeType]],
          error |-> JsonNull]

\* The else branch of Server::onRequest.
MethodNotFoundError_internal == [code |-> -32603, message |-> "Internal error"]
MethodNotFoundError == [code |-> -32601, message |-> "Method not found"]

\* Server::onRequest: response.id = request.id, then the branch of the method.
OnRequestResponse(request, throws) ==
    LET body ==
          IF request.method = "initialize" THEN HandleInitialize(request)
          ELSE IF request.method = "tools/list" THEN HandleListTools(request)
          ELSE IF request.method = "tools/call" THEN HandleCallTool(request, throws)
          ELSE IF request.method = "resources/list" THEN HandleListResources(request)
          ELSE IF request.method = "resources/read" THEN HandleReadResource(request)
          ELSE [result |-> JsonNull, error |-> MethodNotFoundError]
    IN  [id |-> request.id, result |-> body.result, error |-> body.error]

\* One Server::onRequest call, made by the thread that also registers and
\* removes tools: no handler changes the registries or the running flag.
ServerOnRequest(request, throws) ==
    /\ srvRequest' = request
    /\ srvResponse' = OnRequestResponse(request, throws)
    /\ srvSeq' = 1 - srvSeq
    /\ srvInvoked' = IF request.method = "tools/call" /\ request.name \in DOMAIN tools
                     THEN Invocation(tools[request.name], throws)
                     ELSE NoInvocation
    /\ UNCHANGED <<resources, srvRunning>>

\* Server::registerResource: resources[resource.uri] = resource.
RegisterResource(resource) ==
    /\ resources' = MapPut(resources, resource.uri, resource)
    /\ UNCHANGED <<srvRunning, srvRequest, srvResponse, srvSeq, srvInvoked>>

\* Server::removeResource: resources.erase(uri).
RemoveResource(uri) ==
    /\ resources' = MapErase(resources, uri)
    /\ UNCHANGED <<srvRunning, srvRequest, srvResponse, srvSeq, srvInvoked>>

\* Server::start.
ServerStart ==
    /\ srvRunning' = TRUE
    /\ UNCHANGED <<resources, srvRequest, srvResponse, srvSeq, srvInvoked>>

\* Server::stop.
ServerStop ==
    /\ srvRunning' = FALSE
    /\ UNCHANGED <<resources, srvRequest, srvResponse, srvSeq, srvInvoked>>

\* No request handled yet.
NoRequest == [method |-> "", id |-> "", name |-> "", uri |-> "", arguments |-> {}]

InitServerVars ==
    /\ resources = EmptyMap
    /\ srvRunning = FALSE
    /\ srvRequest = NoRequest
    /\ srvResponse = [id |-> "", result |-> JsonNull, error |-> JsonNull]
    /\ srvSeq = 0
    /\ srvInvoked = NoInvocation

NextServer ==
    \/ \E tool \in ServerTools : RegisterTool(tool) /\ UNCHANGED regFrame
    \/ \E name \in ToolNames : RemoveTool(name) /\ UNCHANGED regFrame
    \/ \E resource \in Resource : RegisterResource(resource) /\ UNCHANGED srvFrame
    \/ \E uri \in ResourceUris : RemoveResource(uri) /\ UNCHANGED srvFrame
    \/ ServerStart /\ UNCHANGED srvFrame
    \/ ServerStop /\ UNCHANGED srvFrame
    \/ \E request \in ServerRequests, throws \in BOOLEAN :
          ServerOnRequest(request, throws) /\ UNCHANGED srvFrame

\* The step is a Server::onRequest call.
IsRequestStep == srvSeq' # srvSeq

\* C18: Server::onRequest for a method that is not built in answers with error
\* code -32601 "Method not found" and the request's id, changes neither the tool
\* registry, the resource registry nor the running flag, and the request after
\* it, when its method has a branch, is served and not answered with -32601.
C18_UnknownMethodNotFound ==
    [][IsRequestStep =>
         /\ srvRequest'.method \in UnknownMethods =>
              /\ srvResponse'.error = [code |-> -32601, message |-> "Method not found"]
              /\ srvResponse'.result = JsonNull
              /\ srvResponse'.id = srvRequest'.id
              /\ tools' = tools
              /\ resources' = resources
              /\ srvRunning' = srvRunning
         /\ (srvRequest.method \in UnknownMethods
             /\ srvRequest'.method \in DispatchedMethods) =>
              /\ srvResponse'.id = srvRequest'.id
              /\ srvResponse'.error # [code |-> -32601, message |-> "Method not found"]
      ]_vars

\* An unknown method was answered while the server ran with a tool and a
\* resource registered, right after another request.
C18_Witness ==
    /\ srvRequest.method \in UnknownMethods
    /\ srvResponse.error = MethodNotFoundError
    /\ srvSeq = 0
    /\ srvRunning
    /\ DOMAIN tools # {}
    /\ DOMAIN resources # {}

\* C19: a request for any built-in method (initialize, tools/list, tools/call,
\* resources/list, resources/read, prompts/list, prompts/get, logging/setLevel,
\* shutdown) is never answered with MethodNotFound (-32601), and its response
\* carries the request's id.
C19_BuiltinsDispatched ==
    srvRequest.method \in BuiltinMethods =>
        /\ srvResponse.id = srvRequest.id
        /\ ~("code" \in DOMAIN srvResponse.error /\ srvResponse.error.code = -32601)

\* The entry the protocol prescribes for a tool: name, description, inputSchema.
ToolEntry(tool) ==
    [name |-> tool.name, description |-> tool.description,
     inputSchema |-> tool.inputSchema]

\* C20: the result of a tools/list request has a tools array with exactly one
\* entry {name, description, inputSchema} for each currently registered tool and
\* no entry for a tool that was removed or never registered.
C20_ListMatchesRegistry ==
    [][(IsRequestStep /\ srvRequest'.method = "tools/list") =>
         LET listed == srvResponse'.result.tools
         IN  /\ Len(listed) = Cardinality(DOMAIN tools')
             /\ \A name \in DOMAIN tools' :
                  \E i \in 1..Len(listed) : listed[i] = ToolEntry(tools'[name])
             /\ \A i \in 1..Len(listed) : listed[i].name \in DOMAIN tools'
      ]_vars

\* C21: tools/call validates the arguments against the tool's inputSchema before
\* invoking the handler: when a member of the schema's "required" array is
\* missing from the arguments, the reply is an InvalidParams (-32602) error and
\* the tool handler is not invoked.
C21_ArgumentsValidated ==
    [][(/\ IsRequestStep
        /\ srvRequest'.method = "tools/call"
        /\ srvRequest'.name \in DOMAIN tools'
        /\ ~ToolValidate(tools'[srvRequest'.name], srvRequest'.arguments)) =>
         /\ "code" \in DOMAIN srvResponse'.error
         /\ srvResponse'.error.code = -32602
         /\ ~srvInvoked'.invoked
      ]_vars

\* C22: when the tool handler raises during tools/call, the reply is a
\* ToolExecutionError (code -32003) carrying the handler's message, with the
\* request's id and no result.
C22_HandlerErrorCode ==
    [][(IsRequestStep /\ srvInvoked'.invoked /\ srvInvoked'.threw) =>
         /\ srvResponse'.id = srvRequest'.id
         /\ srvResponse'.result = JsonNull
         /\ srvResponse'.error = [code |-> -32003, message |-> "what"]
      ]_vars

(***************************************************************************)
(* HardwareControlServer / WebGrabServer: start and stop                   *)
(***************************************************************************)
\* Number of clients that connect to one server.
MaxConnections == 2

\* HardwareControlServer::Start; ok: InitializeGPIO and SetupServerSocket
\* succeeded. On success running = true and acceptThread is started.
HwStart(ok) ==
    /\ hwAcceptPc = "none"
    /\ hwStopPc = "idle"
    /\ IF ok
       THEN /\ hwRunning' = TRUE
            /\ hwServerSocket' = "open"
            /\ hwAcceptPc' = "test"
       ELSE UNCHANGED <<hwRunning, hwServerSocket, hwAcceptPc>>
    /\ UNCHANGED <<hwStopPc, hwClients>>

\* AcceptConnections: `while (running)`; the body starts with the accept call.
HwAcceptTest ==
    /\ hwAcceptPc = "test"
    /\ hwAcceptPc' = IF hwRunning THEN "accept" ELSE "exited"
    /\ UNCHANGED <<hwRunning, hwServerSocket, hwStopPc, hwClients>>

\* AcceptConnections: accept(serverSocket, ...) on the blocking socket returns;
\* withClient: a client connected and a HandleClient thread is detached for
\* it; otherwise accept returned -1 (an interrupted or aborted call): continue.
HwAcceptReturns(withClient) ==
    /\ hwAcceptPc = "accept"
    /\ withClient => hwClients < MaxConnections
    /\ hwClients' = IF withClient THEN hwClients + 1 ELSE hwClients
    /\ hwAcceptPc' = "test"
    /\ UNCHANGED <<hwRunning, hwServerSocket, hwStopPc>>

\* HandleClient: recv returns <= 0 because the client closed; the thread ends.
HwClientCloses ==
    /\ hwClients > 0
    /\ hwClients' = hwClients - 1
    /\ UNCHANGED <<hwRunning, hwServerSocket, hwAcceptPc, hwStopPc>>

\* HardwareControlServer::Stop up to the join: running = false, then
\* acceptThread.join() when the thread is joinable.
HwStopBegin ==
    /\ hwStopPc = "idle"
    /\ hwRunning' = FALSE
    /\ hwStopPc' = IF hwAcceptPc # "none" THEN "join" ELSE "close"
    /\ UNCHANGED <<hwServerSocket, hwAcceptPc, hwClients>>

\* HardwareControlServer::Stop: acceptThread.join() returns once the thread
\* has left AcceptConnections.
HwStopJoin ==
    /\ hwStopPc = "join"
    /\ hwAcceptPc = "exited"
    /\ hwStopPc' = "close"
    /\ UNCHANGED <<hwRunning, hwServerSocket, hwAcceptPc, hwClients>>

\* HardwareControlServer::Stop after the join: close(serverSocket), return.
HwStopClose ==
    /\ hwStopPc = "close"
    /\ hwServerSocket' = "closed"
    /\ hwStopPc' = "done"
    /\ UNCHANGED <<hwRunning, hwAcceptPc, hwClients>>

\* WebGrabServer::start; ok: listener_->start(). On success running_ = true and
\* the acceptLoop thread is put into worker_threads_.
WgStart(ok) ==
    /\ wgAcceptPc = "none"
    /\ wgStopPc = "idle"
    /\ IF ok
       THEN /\ wgRunning' = TRUE
            /\ wgAcceptPc' = "test"
       ELSE UNCHANGED <<wgRunning, wgAcceptPc>>
    /\ UNCHANGED <<wgStopPc, wgHandlers>>

\* WebGrabServer::acceptLoop: `while (running_)`, then listener_->accept().
WgAcceptTest ==
    /\ wgAcceptPc = "test"
    /\ wgAcceptPc' = IF wgRunning THEN "accept" ELSE "exited"
    /\ UNCHANGED <<wgRunning, wgStopPc, wgHandlers>>

\* acceptLoop: listener_->accept() returns; withClient: with a client socket, for
\* which a handleClient thread is put into worker_threads_.
WgAcceptReturns(withClient) ==
    /\ wgAcceptPc = "accept"
    /\ withClient => wgHandlers < MaxConnections
    /\ wgHandlers' = IF withClient THEN wgHandlers + 1 ELSE wgHandlers
    /\ wgAcceptPc' = "test"
    /\ UNCHANGED <<wgRunning, wgStopPc>>

\* handleClient: the loop ends (receive failed, the peer closed, or a Shutdown
\* request came) and the thread finishes.
WgHandlerEnds ==
    /\ wgHandlers > 0
    /\ wgHandlers' = wgHandlers - 1
    /\ UNCHANGED <<wgRunning, wgAcceptPc, wgStopPc>>

\* WebGrabServer::stop up to the joins: running_ = false, cv_.notify_all().
WgStopBegin ==
    /\ wgStopPc = "idle"
    /\ wgRunning' = FALSE
    /\ wgStopPc' = "join"
    /\ UNCHANGED <<wgAcceptPc, wgHandlers>>

\* WebGrabServer::stop: the loop of join() calls over worker_threads_ ends once
\* every thread in it has finished; then worker_threads_.clear(), return.
WgStopJoin ==
    /\ wgStopPc = "join"
    /\ wgAcceptPc \in {"none", "exited"}
    /\ wgHandlers = 0
    /\ wgStopPc' = "done"
    /\ UNCHANGED <<wgRunning, wgAcceptPc, wgHandlers>>

hwFrame == <<wgRunning, wgAcceptPc, wgStopPc, wgHandlers>>
wgFrame == <<hwRunning, hwServerSocket, hwAcceptPc, hwStopPc, hwClients>>

InitStopVars ==
    /\ hwRunning = FALSE
    /\ hwServerSocket = "closed"
    /\ hwAcceptPc = "none"
    /\ hwStopPc = "idle"
    /\ hwClients = 0
    /\ wgRunning = FALSE
    /\ wgAcceptPc = "none"
    /\ wgStopPc = "idle"
    /\ wgHandlers = 0

\* The steps the two servers' own threads take.
NextStopProgram ==
    \/ \E ok \in BOOLEAN : HwStart(ok) /\ UNCHANGED <<hwFrame, stopFrame>>
    \/ HwAcceptTest /\ UNCHANGED <<hwFrame, stopFrame>>
    \/ HwStopBegin /\ UNCHANGED <<hwFrame, stopFrame>>
    \/ HwStopJoin /\ UNCHANGED <<hwFrame, stopFrame>>
    \/ HwStopClose /\ UNCHANGED <<hwFrame, stopFrame>>
    \/ \E ok \in BOOLEAN : WgStart(ok) /\ UNCHANGED <<wgFrame, stopFrame>>
    \/ WgAcceptTest /\ UNCHANGED <<wgFrame, stopFrame>>
    \/ WgStopBegin /\ UNCHANGED <<wgFrame, stopFrame>>
    \/ WgStopJoin /\ UNCHANGED <<wgFrame, stopFrame>>

\* The steps that wait for a peer: a client connecting, closing or sending.
NextStopPeers ==
    \/ \E withClient \in BOOLEAN :
          HwAcceptReturns(withClient) /\ UNCHANGED <<hwFrame, stopFrame>>
    \/ HwClientCloses /\ UNCHANGED <<hwFrame, stopFrame>>
    \/ \E withClient \in BOOLEAN :
          WgAcceptReturns(withClient) /\ UNCHANGED <<wgFrame, stopFrame>>
    \/ WgHandlerEnds /\ UNCHANGED <<wgFrame, stopFrame>>

NextStop == NextStopProgram \/ NextStopPeers

\* C27: no stop operation blocks forever: once HardwareControlServer::Stop or
\* WebGrabServer::stop has been called it returns, also when no further client
\* connects and when a connected client never sends data.
C27_StopReturns ==
    /\ (hwStopPc \in {"join", "close"}) ~> (hwStopPc = "done")
    /\ (wgStopPc = "join") ~> (wgStopPc = "done")

\* C28: JobWorker consumes its queue in FIFO order: a job enters job_queue_
\* behind the jobs added before it, and a worker only ever takes the job at
\* the front, which it then executes; so a job whose addJob returned before
\* another's was called is dequeued first, for any number of worker threads.
C28_FifoDequeue ==
    [][/\ Len(jobQueue') > Len(jobQueue) =>
            /\ Len(jobQueue') = Len(jobQueue) + 1
            /\ SubSeq(jobQueue', 1, Len(jobQueue)) = jobQueue
            /\ running' = running
       /\ Len(jobQueue') < Len(jobQueue) =>
            /\ jobQueue' = Tail(jobQueue)
            /\ running' = running \cup {Head(jobQueue)}
      ]_vars

\* Two jobs were added and a worker took the first while the second waits.
C28_Witness ==
    /\ Len(jobQueue) = 1
    /\ Cardinality(running) = 1
    /\ \A j \in running : j.sessionId # jobQueue[1].sessionId

(***************************************************************************)
(* tinymcp ProtocolSerializer: Request/Response/Notification toJson and     *)
(* fromJson, serialize and deserialize (protocol.cpp).                     *)
(* A Json::Value is a record tagged with its type; an object carries its   *)
(* members as a function from member names to values. The frame text is    *)
(* the text the JSON writer produces for a value, or text that is no JSON. *)
(***************************************************************************)
JNull == [type |-> "null"]
JString(s) == [type |-> "string", str |-> s]
JInt(n) == [type |-> "int", int |-> n]
JObject(members) == [type |-> "object", members |-> members]
JArray == [type |-> "array"]

Digits == <<"0", "1", "2", "3", "4", "5", "6", "7", "8", "9">>

RECURSIVE IntString(_)
IntString(n) ==
    IF n < 10 THEN Digits[n + 1] ELSE IntString(n \div 10) \o Digits[(n % 10) + 1]

\* Json::Value::isMember(key)
IsMember(json, key) == json.type = "object" /\ key \in DOMAIN json.members

\* Json::Value::get(key, defaultValue)
JsonGet(json, key, defaultValue) ==
    IF IsMember(json, key) THEN json.members[key] ELSE defaultValue

\* Json::Value::asString() of the values a frame carries in "jsonrpc", "id", "method"
AsString(value) ==
    CASE value.type = "string" -> value.str
      [] value.type = "int" -> IntString(value.int)
      [] value.type = "null" -> ""

\* Default-constructed messages: Message::id is empty, jsonrpc is "2.0".
NewRequest ==
    [type |-> "Request", id |-> "", jsonrpc |-> "2.0", method |-> "", params |-> JNull]
NewResponse ==
    [type |-> "Response", id |-> "", jsonrpc |-> "2.0", result |-> JNull, error |-> JNull]
NewNotification ==
    [type |-> "Notification", id |-> "", jsonrpc |-> "2.0", method |-> "",
     params |-> JNull]

WithParams(members, params) ==
    IF params.type # "null" THEN members @@ ("params" :> params) ELSE members

RequestToJson(m) ==
    JObject(WithParams(("jsonrpc" :> JString(m.jsonrpc)) @@ ("id" :> JString(m.id))
                       @@ ("method" :> JString(m.method)), m.params))

RequestFromJson(self, json) ==
    [self EXCEPT !.jsonrpc = AsString(JsonGet(json, "jsonrpc", JString("2.0"))),
                 !.id = AsString(JsonGet(json, "id", JString(""))),
                 !.method = AsString(JsonGet(json, "method", JString(""))),
                 !.params = JsonGet(json, "params", JNull)]

ResponseToJson(m) ==
    JObject(("jsonrpc" :> JString(m.jsonrpc)) @@ ("id" :> JString(m.id))
            @@ (IF m.error.type # "null" THEN ("error" :> m.error)
                ELSE ("result" :> m.result)))

ResponseFromJson_resultOnly(self, json) ==
    [self EXCEPT !.jsonrpc = AsString(JsonGet(json, "jsonrpc", JString("2.0"))),
                 !.id = AsString(JsonGet(json, "id", JString(""))),
                 !.result = JsonGet(json, "result", JNull)]

ResponseFromJson(self, json) ==
    LET head == [self EXCEPT
                   !.jsonrpc = AsString(JsonGet(json, "jsonrpc", JString("2.0"))),
                   !.id = AsString(JsonGet(json, "id", JString("")))]
    IN  IF IsMember(json, "error")
        THEN [head EXCEPT !.error = json.members["error"]]
        ELSE [head EXCEPT !.result = JsonGet(json, "result", JNull)]

NotificationToJson(m) ==
    JObject(WithParams(("jsonrpc" :> JString(m.jsonrpc))
                       @@ ("method" :> JString(m.method)), m.params))

NotificationFromJson(self, json) ==
    [self EXCEPT !.jsonrpc = AsString(JsonGet(json, "jsonrpc", JString("2.0"))),
                 !.method = AsString(JsonGet(json, "method", JString(""))),
                 !.params = JsonGet(json, "params", JNull)]

\* Message::toJson, dispatched on the dynamic type
MessageToJson(m) ==
    CASE m.type = "Request" -> RequestToJson(m)
      [] m.type = "Response" -> ResponseToJson(m)
      [] m.type = "Notification" -> NotificationToJson(m)

\* The text of a frame: the JSON writer's output for a value, or text no JSON
\* reader accepts.
JsonText(json) == [valid |-> TRUE, json |-> json]
InvalidText == [valid |-> FALSE]

Serialize(message) == JsonText(MessageToJson(message))

Returned(message) == [kind |-> "message", message |-> message]
Thrown(exception, what) == [kind |-> "exception", exception |-> exception, what |-> what]
NotDecoded == [kind |-> "none"]

Deserialize_responseFirst(data) ==
    IF ~data.valid THEN Thrown("MCPException", "Failed to parse JSON")
    ELSE LET json == data.json
         IN  IF json.type \notin {"null", "object"}
             THEN Thrown("Json::LogicError", "requires objectValue or nullValue")
             ELSE IF IsMember(json, "result") \/ IsMember(json, "error")
             THEN Returned(ResponseFromJson(NewResponse, json))
             ELSE IF IsMember(json, "method")
             THEN IF IsMember(json, "id")
                  THEN Returned(RequestFromJson(NewRequest, json))
                  ELSE Returned(NotificationFromJson(NewNotification, json))
             ELSE Thrown("MCPException", "Unknown message type")

\* ProtocolSerializer::deserialize. isMember on a value that is neither an
\* object nor null fails inside the JSON library.
Deserialize(data) ==
    IF ~data.valid THEN Thrown("MCPException", "Failed to parse JSON")
    ELSE LET json == data.json
         IN  IF json.type \notin {"null", "object"}
             THEN Thrown("Json::LogicError", "requires objectValue or nullValue")
             ELSE IF IsMember(json, "method")
             THEN IF IsMember(json, "id")
                  THEN Returned(RequestFromJson(NewRequest, json))
                  ELSE Returned(NotificationFromJson(NewNotification, json))
             ELSE IF IsMember(json, "result") \/ IsMember(json, "error")
             THEN Returned(ResponseFromJson(NewResponse, json))
             ELSE Thrown("MCPException", "Unknown message type")

\* The messages the program serializes. A Notification is built by its
\* constructors, which leave Message::id empty; a Response holds a result or
\* an error, never both.
WireIds == {"", "req-1"}
WireMethods == {"", "ping"}
WireParams == {JNull, JObject(EmptyMap), JObject("x" :> JInt(1))}
WireErrors == {JObject(("code" :> JInt(32601)) @@ ("message" :> JString("Method not found")))}
EncodableMessages ==
    {[NewRequest EXCEPT !.id = i, !.method = m, !.params = p] :
        i \in WireIds, m \in WireMethods, p \in WireParams}
    \cup {[NewNotification EXCEPT !.method = m, !.params = p] :
        m \in WireMethods, p \in WireParams}
    \cup {[NewResponse EXCEPT !.id = i, !.result = r] : i \in WireIds, r \in WireParams}
    \cup {[NewResponse EXCEPT !.id = i, !.error = e] : i \in WireIds, e \in WireErrors}

\* The frames a peer sends: every combination of present and absent members,
\* JSON that is no object, and text that is no JSON.
Absent == [type |-> "absent"]
FrameMembers ==
    [jsonrpc : {Absent, JString("2.0")},
     id : {Absent, JNull, JString("req-1"), JInt(7)},
     method : {Absent, JString("ping")},
     params : {Absent, JNull, JObject("x" :> JInt(1))},
     result : {Absent, JNull, JObject("x" :> JInt(1))},
     error : {Absent} \cup WireErrors]
Present(f) == [k \in {n \in DOMAIN f : f[n] # Absent} |-> f[k]]
PeerFrames ==
    {JsonText(JObject(Present(f))) : f \in FrameMembers}
    \cup {JsonText(JNull), JsonText(JArray), InvalidText}

NoMessage == [type |-> "none"]
NoData == [valid |-> FALSE, empty |-> TRUE]

InitWireVars ==
    /\ wireSent = NoMessage
    /\ wireData = NoData
    /\ wireDecoded = NotDecoded

\* ProtocolSerializer::serialize(message): the frame the program writes.
SerializeMessage(m) ==
    /\ wireSent' = m
    /\ wireData' = Serialize(m)
    /\ wireDecoded' = NotDecoded

\* A frame arrives from the peer.
ReceiveFrame(data) ==
    /\ wireSent' = NoMessage
    /\ wireData' = data
    /\ wireDecoded' = NotDecoded

\* ProtocolSerializer::deserialize(wireData)
DeserializeFrame ==
    /\ wireData # NoData
    /\ wireDecoded = NotDecoded
    /\ wireDecoded' = Deserialize(wireData)
    /\ UNCHANGED <<wireSent, wireData>>

NextWire ==
    \/ \E m \in EncodableMessages : SerializeMessage(m) /\ UNCHANGED wireFrame
    \/ \E data \in PeerFrames : ReceiveFrame(data) /\ UNCHANGED wireFrame
    \/ DeserializeFrame /\ UNCHANGED wireFrame

\* The frame just decoded is a JSON object sent by the peer.
DecodedObject == wireDecoded # NotDecoded /\ wireData.valid /\ wireData.json.type = "object"

\* C23: deserialize classifies a JSON object by structure: "method" and "id"
\* both present gives a Request, "method" without "id" a Notification, and no
\* "method" but "result" or "error" a Response.
C23_ClassifiedByStructure ==
    DecodedObject =>
        LET has == DOMAIN wireData.json.members
        IN  /\ ("method" \in has /\ "id" \in has) =>
                (wireDecoded.kind = "message" /\ wireDecoded.message.type = "Request")
            /\ ("method" \in has /\ "id" \notin has) =>
                (wireDecoded.kind = "message"
                 /\ wireDecoded.message.type = "Notification")
            /\ ("method" \notin has /\ ({"result", "error"} \cap has # {})) =>
                (wireDecoded.kind = "message" /\ wireDecoded.message.type = "Response")

\* A peer's frame carrying "method", "id" and "result" was decoded as a Request.
C23_Witness ==
    /\ DecodedObject
    /\ wireSent = NoMessage
    /\ {"method", "id", "result"} \subseteq DOMAIN wireData.json.members
    /\ wireDecoded.kind = "message"
    /\ wireDecoded.message.type = "Request"

\* The frame is no JSON, or JSON matching none of the three message shapes.
BadFrame(data) ==
    \/ ~data.valid
    \/ data.json.type # "object"
    \/ /\ data.json.type = "object"
       /\ {"method", "result", "error"} \cap DOMAIN data.json.members = {}

\* C24: a frame that is not valid JSON, or a JSON object matching none of the
\* message shapes, yields a parse-error Response with code -32700 and id null
\* (or the recovered id) instead of an exception.
C24_ParseErrorResponse ==
    (wireDecoded # NotDecoded /\ BadFrame(wireData)) =>
        /\ wireDecoded.kind = "message"
        /\ wireDecoded.message.type = "Response"
        /\ wireDecoded.message.error.type = "object"
        /\ wireDecoded.message.error.members["code"] = JInt(32700)

\* C25: frame round trip: deserialize(serialize(m)) is a message of m's type
\* with m's jsonrpc, id, method, params, result and error.
C25_RoundTrip ==
    (wireSent # NoMessage /\ wireDecoded # NotDecoded) =>
        /\ wireDecoded.kind = "message"
        /\ wireDecoded.message.type = wireSent.type
        /\ wireDecoded.message.jsonrpc = wireSent.jsonrpc
        /\ wireDecoded.message.id = wireSent.id
        /\ wireSent.type \in {"Request", "Notification"} =>
              /\ wireDecoded.message.method = wireSent.method
              /\ wireDecoded.message.params = wireSent.params
        /\ wireSent.type = "Response" =>
              /\ wireDecoded.message.result = wireSent.result
              /\ wireDecoded.message.error = wireSent.error

\* An error Response with an id went through serialize and deserialize.
C25_Witness ==
    /\ wireSent # NoMessage
    /\ wireSent.type = "Response"
    /\ wireSent.error.type = "object"
    /\ wireSent.id = "req-1"
    /\ wireDecoded.kind = "message"

(***************************************************************************)
(* tinymcp Server: handleCallTool on a request thread while another thread *)
(* calls registerTool / removeTool (server.cpp, tools.cpp).                *)
(* registerTool and removeTool hold Server::Impl::mutex around the std::map *)
(* operation; handleCallTool calls ToolRegistry::getTool and then goes      *)
(* through the returned Tool* without taking the mutex.                    *)
(***************************************************************************)
NoWriterOp == [kind |-> "none", name |-> ""]
WriterOps ==
    {[kind |-> "register", name |-> tool.name, tool |-> tool] : tool \in ServerTools}
    \cup {[kind |-> "remove", name |-> name] : name \in ToolNames}

NoToolCall ==
    [name |-> "", pointer |-> "none", seen |-> NoWriterOp, raced |-> FALSE,
     touched |-> "none", handler |-> NoHandler]

InitRaceVars ==
    /\ srvMutex = "free"
    /\ writerPc = "idle"
    /\ writerOp = NoWriterOp
    /\ toolCallPc = "idle"
    /\ toolCall = NoToolCall

\* std::lock_guard<std::mutex> lock(pImpl->mutex) in registerTool / removeTool.
WriterLock(op) ==
    /\ writerPc = "idle"
    /\ srvMutex = "free"
    /\ srvMutex' = "writer"
    /\ writerPc' = "locked"
    /\ writerOp' = op
    /\ UNCHANGED <<toolCallPc, toolCall, regVars>>

\* The std::map operation starts: tools[tool.name] = tool, or tools.erase(name).
\* A getTool in progress on the request thread now overlaps it.
WriterBegin ==
    /\ writerPc = "locked"
    /\ writerPc' = "modifying"
    /\ toolCall' = IF toolCallPc = "finding"
                   THEN [toolCall EXCEPT !.raced = TRUE]
                   ELSE toolCall
    /\ UNCHANGED <<srvMutex, writerOp, toolCallPc, regVars>>

\* What the writer's operation does to the entry a Tool* of the request thread
\* points at: erase frees the node, assignment overwrites the Tool in place.
Touch(call, op) ==
    IF toolCallPc = "found" /\ op.name = call.name
    THEN [call EXCEPT !.touched = IF op.kind = "remove" \/ call.touched = "removed"
                                  THEN "removed"
                                  ELSE "replaced"]
    ELSE call

\* The std::map operation completes.
WriterCommit ==
    /\ writerPc = "modifying"
    /\ IF writerOp.kind = "register"
       THEN RegisterTool(writerOp.tool)
       ELSE RemoveTool(writerOp.name)
    /\ writerPc' = "modified"
    /\ toolCall' = Touch(toolCall, writerOp)
    /\ UNCHANGED <<srvMutex, writerOp, toolCallPc>>

\* The lock_guard goes out of scope.
WriterUnlock ==
    /\ writerPc = "modified"
    /\ srvMutex' = "free"
    /\ writerPc' = "idle"
    /\ UNCHANGED <<writerOp, toolCallPc, toolCall, regVars>>

\* handleCallTool: pImpl->toolRegistry.getTool(toolName) starts; no lock taken.
CallFindBegin(name) ==
    /\ toolCallPc = "idle"
    /\ toolCallPc' = "finding"
    /\ toolCall' = [NoToolCall EXCEPT !.name = name,
                                      !.raced = (writerPc = "modifying")]
    /\ UNCHANGED <<srvMutex, writerPc, writerOp, regVars>>

\* The entries tools.find(name) can come back with: the entry of the map, and,
\* when the find overlapped the writer's operation (a data race), any outcome.
FindOutcomes(call) ==
    LET clean == IF call.name \in DOMAIN tools THEN {"entry"} ELSE {"nullptr"}
    IN  IF call.raced THEN {"entry", "nullptr", "crash"} ELSE clean

\* getTool returns: a Tool* into the map, or nullptr.
CallFindEnd(outcome) ==
    /\ toolCallPc = "finding"
    /\ outcome \in FindOutcomes(toolCall)
    /\ outcome = "entry" => toolCall.name \in DOMAIN tools
    /\ toolCall' = [toolCall EXCEPT
                      !.pointer = outcome,
                      !.seen = IF outcome = "entry" THEN tools[toolCall.name]
                               ELSE NoWriterOp]
    /\ toolCallPc' = IF outcome = "entry" THEN "found" ELSE "done"
    /\ UNCHANGED <<srvMutex, writerPc, writerOp, regVars>>

\* The handlers tool->handler can denote when the call goes through the Tool*:
\* the looked-up entry's handler if the entry is untouched, the new Tool's
\* handler if it was assigned over, anything once the node was erased (a
\* dangling pointer) or while the writer is assigning it.
HandlersThrough(call) ==
    LET writing == writerPc = "modifying" /\ writerOp.name = call.name
        current == IF call.name \in DOMAIN tools
                   THEN {tools[call.name].handler} ELSE {}
    IN  IF call.touched = "removed" \/ writing
        THEN {call.seen.handler, "crash"} \cup current
        ELSE current

\* handleCallTool: if (tool->handler) response.result = tool->handler(arguments).
CallInvoke(handler) ==
    /\ toolCallPc = "found"
    /\ handler \in HandlersThrough(toolCall)
    /\ toolCall' = [toolCall EXCEPT
                      !.handler = handler,
                      !.raced = @ \/ (writerPc = "modifying"
                                      /\ writerOp.name = toolCall.name)]
    /\ toolCallPc' = "done"
    /\ UNCHANGED <<srvMutex, writerPc, writerOp, regVars>>

\* handleCallTool returns; the next tools/call request may start.
CallReturn ==
    /\ toolCallPc = "done"
    /\ toolCallPc' = "idle"
    /\ UNCHANGED <<srvMutex, writerPc, writerOp, toolCall, regVars>>

NextRace ==
    \/ \E op \in WriterOps : WriterLock(op) /\ UNCHANGED raceFrame
    \/ WriterBegin /\ UNCHANGED raceFrame
    \/ WriterCommit /\ UNCHANGED raceFrame
    \/ WriterUnlock /\ UNCHANGED raceFrame
    \/ \E name \in ToolNames : CallFindBegin(name) /\ UNCHANGED raceFrame
    \/ \E outcome \in {"entry", "nullptr", "crash"} :
          CallFindEnd(outcome) /\ UNCHANGED raceFrame
    \/ \E handler \in ToolHandlers \cup {NoHandler, "crash"} :
          CallInvoke(handler) /\ UNCHANGED raceFrame
    \/ CallReturn /\ UNCHANGED raceFrame

\* C30: tool registry accesses are lock-protected: while handleCallTool runs
\* against concurrent registerTool / removeTool calls, the registry is never
\* read while another thread modifies it, and the handler invoked belongs to an
\* entry that was not removed or replaced between its lookup and its invocation.
C30_RegistryLockProtected ==
    /\ ~(toolCallPc = "finding" /\ writerPc = "modifying")
    /\ ~toolCall.raced
    /\ (toolCallPc = "done" /\ toolCall.pointer = "entry") =>
          (toolCall.touched = "none" /\ toolCall.handler = toolCall.seen.handler)

(***************************************************************************)
(* JobWorker: addJob, stop and workerLoop (JobWorker.cpp).                 *)
(* The block workerLoop runs under queue_mutex_ (wait for the predicate,   *)
(* test for exit, pop the front) is one step; execute() runs outside it.   *)
(***************************************************************************)
\* Cap on the number of JobWorker::addJob calls in a run.
MaxPoolJobs == 3

Workers == 1..NumWorkers
PoolJobs == 1..MaxPoolJobs

InitPoolVars ==
    /\ job_queue_ = <<>>
    /\ stop_requested_ = FALSE
    /\ workerPc = [w \in Workers |-> "waiting"]
    /\ workerJob = [w \in Workers |-> 0]
    /\ poolStopPc = "idle"
    /\ executedBy = [j \in PoolJobs |-> <<>>]
    /\ addedJobs = 0
    /\ addedBeforeStop = {}

\* JobWorker::addJob, by any thread, before or after stop() was called.
PoolAddJob ==
    /\ addedJobs < MaxPoolJobs
    /\ job_queue_' = AddJob(job_queue_, addedJobs + 1)
    /\ addedJobs' = addedJobs + 1
    /\ addedBeforeStop' = IF poolStopPc = "idle"
                          THEN addedBeforeStop \cup {addedJobs + 1}
                          ELSE addedBeforeStop
    /\ UNCHANGED <<stop_requested_, workerPc, workerJob, poolStopPc, executedBy>>

\* JobWorker::stop: stop_requested_ = true under the mutex, cv_.notify_all().
PoolStopBegin ==
    /\ poolStopPc = "idle"
    /\ stop_requested_' = TRUE
    /\ poolStopPc' = "joining"
    /\ UNCHANGED <<job_queue_, workerPc, workerJob, executedBy, addedJobs,
                   addedBeforeStop>>

\* workerLoop: if (stop_requested_ && job_queue_.empty()) break;
WorkerShouldExit_stopOnly(stop, queue) == stop
WorkerShouldExit(stop, queue) == stop /\ queue = <<>>

\* workerLoop, under the lock: the wait predicate holds; leave the loop or pop
\* the front of the queue.
WorkerWake(w) ==
    /\ workerPc[w] = "waiting"
    /\ stop_requested_ \/ job_queue_ # <<>>
    /\ IF WorkerShouldExit(stop_requested_, job_queue_)
       THEN /\ workerPc' = [workerPc EXCEPT ![w] = "exited"]
            /\ UNCHANGED <<job_queue_, workerJob>>
       ELSE /\ workerPc' = [workerPc EXCEPT ![w] = "executing"]
            /\ workerJob' = [workerJob EXCEPT ![w] = Head(job_queue_)]
            /\ job_queue_' = Tail(job_queue_)
    /\ UNCHANGED <<stop_requested_, poolStopPc, executedBy, addedJobs,
                   addedBeforeStop>>

\* workerLoop: job->execute() returns; the job is destroyed and the loop goes
\* back to the wait.
WorkerRun(w) ==
    /\ workerPc[w] = "executing"
    /\ executedBy' = [executedBy EXCEPT ![workerJob[w]] = Append(@, w)]
    /\ workerPc' = [workerPc EXCEPT ![w] = "waiting"]
    /\ workerJob' = [workerJob EXCEPT ![w] = 0]
    /\ UNCHANGED <<job_queue_, stop_requested_, poolStopPc, addedJobs,
                   addedBeforeStop>>

\* JobWorker::stop: every w.join() has returned.
PoolStopJoin ==
    /\ poolStopPc = "joining"
    /\ \A w \in Workers : workerPc[w] = "exited"
    /\ poolStopPc' = "done"
    /\ UNCHANGED <<job_queue_, stop_requested_, workerPc, workerJob, executedBy,
                   addedJobs, addedBeforeStop>>

NextPool ==
    \/ PoolAddJob /\ UNCHANGED poolFrame
    \/ PoolStopBegin /\ UNCHANGED poolFrame
    \/ \E w \in Workers : WorkerWake(w) /\ UNCHANGED poolFrame
    \/ \E w \in Workers : WorkerRun(w) /\ UNCHANGED poolFrame
    \/ PoolStopJoin /\ UNCHANGED poolFrame

\* C31: every job passed to addJob before stop() is called is executed exactly
\* once by exactly one worker, also when it was still queued when stop() was
\* called, and stop() returns only after all of them have finished.
C31_ExecutedExactlyOnce ==
    /\ \A j \in PoolJobs : Len(executedBy[j]) <= 1
    /\ \A j \in PoolJobs :
          Len(executedBy[j]) + Cardinality({w \in Workers : workerJob[w] = j}) <= 1
    /\ poolStopPc = "done" =>
          \A j \in addedBeforeStop : Len(executedBy[j]) = 1

\* stop() returned after two jobs added before it were executed, by two workers.
C31_Witness ==
    /\ poolStopPc = "done"
    /\ Cardinality(addedBeforeStop) >= 2
    /\ \A j \in addedBeforeStop : Len(executedBy[j]) = 1
    /\ \E j, k \in addedBeforeStop : executedBy[j] # executedBy[k]

\* C32: the session id written in the response to a Download request is the id
\* of the JobInfo entry created for that same request, for any interleaving of
\* Download requests processed on different client connections.
C32_ResponseNamesOwnJob ==
    [][\A c \in Clients :
         (clientPc[c] = "respond" /\ clientPc'[c] = "recv") =>
            /\ lastResponse'.kind = "download"
            /\ lastResponse'.id = localId[c]
            /\ localId[c] \in DOMAIN jobs]_vars

(***************************************************************************)
(* ContextManager: one caller reads a session with getSessionContext and   *)
(* writes it back with updateSession while another thread calls            *)
(* addCommandToHistory on the same session.                                *)
(***************************************************************************)
\* Cap on the addCommandToHistory calls made while a caller holds a copy.
MaxCopyCalls == 2

InitCopyVars == callerCopy = <<>>

\* getSessionContext(id, context): the caller keeps the copy it was given.
CallerGet(id) ==
    /\ GetSessionContext(id)
    /\ callerCopy' = lastGet'.context

\* The caller changes a variable of its copy and passes it to updateSession.
CallerUpdate(saveOk) ==
    /\ callerCopy # <<>>
    /\ UpdateSession([callerCopy[1] EXCEPT !.variables = MapPut(@, "k", "v")], saveOk)
    /\ callerCopy' = <<>>

NextLostHistory ==
    \/ /\ "sess_1" \notin DOMAIN sessionsCache
       /\ CreateSession("sess_1", TRUE)
       /\ UNCHANGED <<copyFrame, callerCopy>>
    \/ /\ "sess_1" \in DOMAIN sessionsCache
       /\ AddLockUpTo(1, "sess_1", MaxCopyCalls)
       /\ UNCHANGED <<copyFrame, callerCopy>>
    \/ AddPushCommand(1) /\ UNCHANGED <<copyFrame, callerCopy>>
    \/ AddPushResponse(1) /\ UNCHANGED <<copyFrame, callerCopy>>
    \/ AddTrimSave(1, TRUE) /\ UNCHANGED <<copyFrame, callerCopy>>
    \/ CallerGet("sess_1") /\ UNCHANGED copyFrame
    \/ \E saveOk \in BOOLEAN : CallerUpdate(saveOk) /\ UNCHANGED copyFrame
    \/ DeleteSession("sess_1") /\ UNCHANGED <<copyFrame, callerCopy>>

\* The entries of a history.
Entries(history) == {history[i] : i \in 1..Len(history)}

\* The entries of the history that the step keeps, the oldest of more than
\* HistoryLimit entries aside.
Kept(before, after) ==
    \A i \in 1..Len(before) :
        \/ before[i] \in Entries(after)
        \/ i = 1 /\ Len(before) > HistoryLimit

\* C33: no lost history: a (command, response) pair appended by
\* addCommandToHistory stays in the session's history until it is trimmed as the
\* oldest of more than 50 entries or the session is deleted or swept; a
\* getSessionContext followed by updateSession from another caller does not
\* remove it.
C33_NoLostHistory ==
    [][\A id \in DOMAIN sessionsCache \cap DOMAIN sessionsCache' :
         /\ Kept(sessionsCache[id].commandHistory, sessionsCache'[id].commandHistory)
         /\ Kept(sessionsCache[id].responseHistory,
                 sessionsCache'[id].responseHistory)]_vars

\* The session operations that change a cached session only, called one at a
\* time on sessions that are cached, saved only (after a restart) or unknown.
NextUncached ==
    \/ \E id \in CtxIds, saveOk \in BOOLEAN : CreateSession(id, saveOk) /\ UNCHANGED ctxFrame
    \/ \E id \in AllCtxIds : GetSessionContext(id) /\ UNCHANGED ctxFrame
    \/ \E id \in AllCtxIds : DeleteSession(id) /\ UNCHANGED ctxFrame
    \/ ContextManagerRestart /\ UNCHANGED ctxFrame
    \/ \E id \in CtxIds : SetSessionVariable(id, "k", "v", TRUE) /\ UNCHANGED ctxFrame
    \/ \E id \in CtxIds : UpdateLastIntent(id, "play", TRUE) /\ UNCHANGED ctxFrame
    \/ \E id \in CtxIds :
          UpdateServiceState(id, "audio", "vol", "1", TRUE) /\ UNCHANGED ctxFrame
    \/ \E id \in CtxIds : AddLock(1, id) /\ UNCHANGED ctxFrame
    \/ AddPushCommand(1) /\ UNCHANGED ctxFrame
    \/ AddPushResponse(1) /\ UNCHANGED ctxFrame
    \/ AddTrimSave(1, TRUE) /\ UNCHANGED ctxFrame

\* C34: addCommandToHistory, setSessionVariable, updateLastIntent and
\* updateServiceState called with a session id that is not in the session cache
\* change nothing: the cache and the durable store are left as they were and no
\* session is created, even when a durable copy of that session exists.
C34_UncachedIdNoEffect ==
    [][/\ (/\ lastWrite'.op \in {"setSessionVariable", "updateLastIntent",
                                  "updateServiceState"}
           /\ lastWrite'.id \notin DOMAIN sessionsCache) =>
             (sessionsCache' = sessionsCache /\ sessionFiles' = sessionFiles)
       /\ \A t \in CtxThreads :
             (/\ addPc[t] \in {"idle", "locked"}
              /\ addPc'[t] # addPc[t]
              /\ addArg'[t].id \notin DOMAIN sessionsCache) =>
                /\ sessionsCache' = sessionsCache
                /\ sessionFiles' = sessionFiles
                /\ addPc'[t] \in {"idle", "locked"}]_vars

\* updateLastIntent was just called for a session that has a file and no cache
\* entry, and addCommandToHistory for such a session has returned before.
C34_Witness ==
    /\ lastWrite.op = "updateLastIntent"
    /\ lastWrite.id \notin DOMAIN sessionsCache
    /\ lastWrite.id \in DOMAIN sessionFiles
    /\ addCalls[1] > 0
    /\ addPc[1] = "idle"
    /\ sessionFiles[lastWrite.id].commandHistory = <<>>

(***************************************************************************)
(* TinyMCP DownloadTask: cancel() called before or during execute().       *)
(***************************************************************************)
InitCancelVars == cancelledAt = {}

\* DownloadTask::cancel, the position of execute() noted.
CancelAt ==
    /\ TaskCancel
    /\ cancelledAt' = cancelledAt \cup {taskPc}

NextCancel ==
    \/ CancelAt /\ UNCHANGED cancelFrame
    \/ \E openOk \in BOOLEAN :
          ExecuteStart(openOk) /\ UNCHANGED <<cancelFrame, cancelledAt>>
    \/ WriteChunk /\ UNCHANGED <<cancelFrame, cancelledAt>>
    \/ ProgressCallback /\ UNCHANGED <<cancelFrame, cancelledAt>>
    \/ \E res \in {"ok", "error"} : PerformEnd(res) /\ UNCHANGED <<cancelFrame, cancelledAt>>
    \/ ExecuteFinish /\ UNCHANGED <<cancelFrame, cancelledAt>>
    \/ ResumeFinish /\ UNCHANGED <<cancelFrame, cancelledAt>>

\* C35: cancel is sticky: if cancel() was called before execute() started or
\* while it transferred, execute() does not complete the download: it returns
\* false and isComplete() stays false.
C35_CancelSticky ==
    (taskPc = "done" /\ cancelledAt \cap {"idle", "transfer", "resume_transfer"} # {})
        => (executeResult = "false" /\ ~isComplete)

\* C36: whenever execute returns true the session is marked complete
\* (isComplete() is true and the saved session is "completed"), on the fresh
\* path and on the resume path alike; whenever it returns false on a run that
\* was not aborted, the session has been marked failed.
C36_ResultMatchesSession ==
    taskPc = "done" =>
        /\ executeResult = "true" => (isComplete /\ session.status = "completed")
        /\ (executeResult = "false" /\ ~taskAbortRequested) => session.status = "failed"

(***************************************************************************)
(* HardwareControlServer: the activeLines map under concurrent requests    *)
(***************************************************************************)
Handlers == 1..MaxConnections

\* Pins, directions and values a request's JSON carries; "" and -1 are the
\* defaults HandleGPIOControl reads for an absent member.
GpioPins == {17, 18}
GpioDirections == {"", "input", "output"}
GpioValues == {-1, 1}
GpioRequests == [pin : GpioPins, direction : GpioDirections, value : GpioValues]
NoGpioRequest == [pin |-> -1, direction |-> "", value |-> -1]

\* After Start succeeded: running = true, no configured line, no client.
InitGpioVars ==
    /\ gpioRunning = TRUE
    /\ activeLines = {}
    /\ handlerPc = [h \in Handlers |-> "none"]
    /\ handlerReq = [h \in Handlers |-> NoGpioRequest]
    /\ gpioStopPc = "idle"

\* AcceptConnections: accept returned a client socket and
\* std::thread(&HandleClient, this, clientSocket).detach() started thread h.
\* The accept thread is in its loop until Stop has joined it.
GpioAccept(h) ==
    /\ gpioStopPc \in {"idle", "join"}
    /\ handlerPc[h] = "none"
    /\ handlerPc' = [handlerPc EXCEPT ![h] = "test"]
    /\ UNCHANGED <<gpioRunning, activeLines, handlerReq, gpioStopPc>>

\* HandleClient: `while (running)`; when it fails, close(clientSocket).
HandleClientTest(h) ==
    /\ handlerPc[h] = "test"
    /\ handlerPc' = [handlerPc EXCEPT ![h] = IF gpioRunning THEN "recv" ELSE "closed"]
    /\ UNCHANGED <<gpioRunning, activeLines, handlerReq, gpioStopPc>>

\* HandleGPIOControl up to its first call: a direction of "input" or "output"
\* enters ConfigureGPIOPin, no direction and a value >= 0 enters SetGPIOPin,
\* neither enters GetGPIOPin.
FirstOperation(req) ==
    IF req.direction # "" THEN "configure"
    ELSE IF req.value >= 0 THEN "set"
    ELSE "get"

\* HandleClient: recv returns; received = FALSE: bytesRead <= 0, break and
\* close. Otherwise HandleGPIOControl(request) starts and the thread enters
\* the first operation on activeLines (nothing is locked on the way).
HandleClientRecv(h, received, req) ==
    /\ handlerPc[h] = "recv"
    /\ IF received
       THEN /\ handlerReq' = [handlerReq EXCEPT ![h] = req]
            /\ handlerPc' = [handlerPc EXCEPT ![h] = FirstOperation(req)]
       ELSE /\ handlerPc' = [handlerPc EXCEPT ![h] = "closed"]
            /\ UNCHANGED handlerReq
    /\ UNCHANGED <<gpioRunning, activeLines, gpioStopPc>>

\* HandleGPIOControl after ConfigureGPIOPin returned true: an output with a
\* value >= 0 enters SetGPIOPin, an input enters GetGPIOPin.
AfterConfigure(req) ==
    IF req.direction = "output" /\ req.value >= 0 THEN "set"
    ELSE IF req.direction = "input" THEN "get"
    ELSE "send"

\* ConfigureGPIOPin returns. It has done activeLines.find, activeLines.erase
\* of an existing entry, and, unless chip->get_line or line.request threw
\* (ok = FALSE), activeLines[pin] = std::move(line).
ConfigureGPIOPinEnd(h, ok) ==
    /\ handlerPc[h] = "configure"
    /\ activeLines' = IF ok THEN activeLines \cup {handlerReq[h].pin}
                            ELSE activeLines \ {handlerReq[h].pin}
    /\ handlerPc' = [handlerPc EXCEPT ![h] =
                        IF ok THEN AfterConfigure(handlerReq[h]) ELSE "send"]
    /\ UNCHANGED <<gpioRunning, handlerReq, gpioStopPc>>

\* SetGPIOPin or GetGPIOPin returns: activeLines.find(pin) and, for an
\* entry found, set_value / get_value through the iterator.
SetGetGPIOPinEnd(h) ==
    /\ handlerPc[h] \in {"set", "get"}
    /\ handlerPc' = [handlerPc EXCEPT ![h] = "send"]
    /\ UNCHANGED <<gpioRunning, activeLines, handlerReq, gpioStopPc>>

\* HandleClient: send(clientSocket, response) and back to the loop test.
HandleClientSend(h) ==
    /\ handlerPc[h] = "send"
    /\ handlerPc' = [handlerPc EXCEPT ![h] = "test"]
    /\ UNCHANGED <<gpioRunning, activeLines, handlerReq, gpioStopPc>>

\* Stop: running = false, then acceptThread.join().
GpioStopBegin ==
    /\ gpioStopPc = "idle"
    /\ gpioRunning' = FALSE
    /\ gpioStopPc' = "join"
    /\ UNCHANGED <<activeLines, handlerPc, handlerReq>>

\* Stop: the join returned (the accept thread left its loop; the HandleClient
\* threads are detached and are not waited for), close(serverSocket), and the
\* thread enters activeLines.clear().
GpioStopClearBegin ==
    /\ gpioStopPc = "join"
    /\ gpioStopPc' = "clear"
    /\ UNCHANGED <<gpioRunning, activeLines, handlerPc, handlerReq>>

\* Stop: activeLines.clear() returns.
GpioStopClearEnd ==
    /\ gpioStopPc = "clear"
    /\ activeLines' = {}
    /\ gpioStopPc' = "done"
    /\ UNCHANGED <<gpioRunning, handlerPc, handlerReq>>

NextGpio ==
    \/ \E h \in Handlers : GpioAccept(h) /\ UNCHANGED gpioFrame
    \/ \E h \in Handlers : HandleClientTest(h) /\ UNCHANGED gpioFrame
    \/ \E h \in Handlers, received \in BOOLEAN, req \in GpioRequests :
           HandleClientRecv(h, received, req) /\ UNCHANGED gpioFrame
    \/ \E h \in Handlers, ok \in BOOLEAN : ConfigureGPIOPinEnd(h, ok) /\ UNCHANGED gpioFrame
    \/ \E h \in Handlers : SetGetGPIOPinEnd(h) /\ UNCHANGED gpioFrame
    \/ \E h \in Handlers : HandleClientSend(h) /\ UNCHANGED gpioFrame
    \/ GpioStopBegin /\ UNCHANGED gpioFrame
    \/ GpioStopClearBegin /\ UNCHANGED gpioFrame
    \/ GpioStopClearEnd /\ UNCHANGED gpioFrame

\* Threads that are inside an operation on activeLines.
InActiveLines ==
    {h \in Handlers : handlerPc[h] \in {"configure", "set", "get"}}
        \cup (IF gpioStopPc = "clear" THEN {0} ELSE {})

\* C37: the configure, set, get and clear operations on activeLines are
\* mutually exclusive: at no time are two threads (HandleClient threads of
\* connected clients, or the thread that calls Stop) inside one of them.
C37_ActiveLinesExclusive == Cardinality(InActiveLines) <= 1

(***************************************************************************)
(* ThreadSafeQueue                                                         *)
(***************************************************************************)
\* Number of push calls and of consumer threads.
MaxQueueItems == 3
NumConsumers == 2
Consumers == 1..NumConsumers

NoPop == [op |-> "none", ok |-> FALSE, item |-> 0, shutdown |-> FALSE, empty |-> TRUE]

\* A default-constructed queue: empty, shutdown_{false}.
InitQueueVars ==
    /\ queue_ = <<>>
    /\ shutdown_ = FALSE
    /\ popPc = [t \in Consumers |-> "idle"]
    /\ pushCalls = 0
    /\ accepted = <<>>
    /\ rejected = {}
    /\ returned = <<>>
    /\ lastPop = NoPop

\* push(item), under mtx_: queue_.push and notify_one unless shutdown_.
QueuePush ==
    /\ pushCalls < MaxQueueItems
    /\ pushCalls' = pushCalls + 1
    /\ IF ~shutdown_
       THEN /\ queue_' = Append(queue_, pushCalls + 1)
            /\ accepted' = Append(accepted, pushCalls + 1)
            /\ UNCHANGED rejected
       ELSE /\ rejected' = rejected \cup {pushCalls + 1}
            /\ UNCHANGED <<queue_, accepted>>
    /\ UNCHANGED <<shutdown_, popPc, returned, lastPop>>

\* pop(item): the thread takes mtx_ and enters condition_.wait, which releases
\* the mutex while the thread is blocked.
QueuePopCall(t) ==
    /\ popPc[t] = "idle"
    /\ popPc' = [popPc EXCEPT ![t] = "waiting"]
    /\ UNCHANGED <<queue_, shutdown_, pushCalls, accepted, rejected, returned, lastPop>>

PopFails_shutdownOnly(shutdown, queue) == shutdown

\* pop: `if (shutdown_ && queue_.empty()) return false;`
PopFails(shutdown, queue) == shutdown /\ queue = <<>>

\* pop: the wait ends with mtx_ held once `!queue_.empty() || shutdown_`; then
\* either return false, or move queue_.front() out, queue_.pop(), return true.
QueuePopReturn(t) ==
    /\ popPc[t] = "waiting"
    /\ queue_ # <<>> \/ shutdown_
    /\ popPc' = [popPc EXCEPT ![t] = "idle"]
    /\ IF PopFails(shutdown_, queue_)
       THEN /\ lastPop' = [op |-> "pop", ok |-> FALSE, item |-> 0,
                           shutdown |-> shutdown_, empty |-> queue_ = <<>>]
            /\ UNCHANGED <<queue_, returned>>
       ELSE /\ lastPop' = [op |-> "pop", ok |-> TRUE,
                           item |-> Head(queue_),
                           shutdown |-> shutdown_, empty |-> queue_ = <<>>]
            /\ returned' = Append(returned, Head(queue_))
            /\ queue_' = Tail(queue_)
    /\ UNCHANGED <<shutdown_, pushCalls, accepted, rejected>>

\* tryPop(item), under mtx_: false for an empty queue, else the front item.
QueueTryPop(t) ==
    /\ popPc[t] = "idle"
    /\ IF queue_ = <<>>
       THEN /\ lastPop' = [op |-> "tryPop", ok |-> FALSE, item |-> 0,
                           shutdown |-> shutdown_, empty |-> TRUE]
            /\ UNCHANGED <<queue_, returned>>
       ELSE /\ lastPop' = [op |-> "tryPop", ok |-> TRUE, item |-> Head(queue_),
                           shutdown |-> shutdown_, empty |-> FALSE]
            /\ returned' = Append(returned, Head(queue_))
            /\ queue_' = Tail(queue_)
    /\ UNCHANGED <<shutdown_, popPc, pushCalls, accepted, rejected>>

\* requestShutdown(), under mtx_: shutdown_ = true, notify_all.
QueueRequestShutdown ==
    /\ ~shutdown_
    /\ shutdown_' = TRUE
    /\ UNCHANGED <<queue_, popPc, pushCalls, accepted, rejected, returned, lastPop>>

NextQueue ==
    \/ QueuePush /\ UNCHANGED queueFrame
    \/ \E t \in Consumers : QueuePopCall(t) /\ UNCHANGED queueFrame
    \/ \E t \in Consumers : QueuePopReturn(t) /\ UNCHANGED queueFrame
    \/ \E t \in Consumers : QueueTryPop(t) /\ UNCHANGED queueFrame
    \/ QueueRequestShutdown /\ UNCHANGED queueFrame

\* C38: the items handed out so far, followed by the items still queued, are
\* exactly the items pushed before requestShutdown, in push order (so each of
\* them is returned at most once, in order, and stays available after the
\* shutdown); an item pushed after requestShutdown is never returned; a pop
\* that finds an item returns it even after the shutdown, and returns false
\* only when shutdown was requested and the queue was empty.
C38_DeliveryUnderShutdown ==
    /\ returned \o queue_ = accepted
    /\ \A i \in 1..Len(returned) : returned[i] \notin rejected
    /\ lastPop.op # "none" /\ lastPop.ok => ~lastPop.empty /\ returned # <<>>
                                            /\ lastPop.item = returned[Len(returned)]
    /\ lastPop.op = "pop" /\ ~lastPop.ok => lastPop.shutdown /\ lastPop.empty
    /\ lastPop.op = "pop" /\ ~lastPop.empty => lastPop.ok

\* An item pushed before the shutdown was handed out by a pop after it, the
\* queue is drained, and a later push was dropped.
C38_Witness ==
    /\ shutdown_
    /\ lastPop.op = "pop" /\ lastPop.ok /\ lastPop.shutdown
    /\ Len(returned) >= 2 /\ queue_ = <<>>
    /\ rejected # {}

(***************************************************************************)
(* CoreOrchestrator: services registered by main, and the Router           *)
(***************************************************************************)
\* The registerService calls of main, in order: name and capabilities.
StartupServices(program) ==
    IF program = "full"
    THEN << [name |-> "ai-audio-assistant",
             capabilities |-> {"audio", "music", "voice", "streaming", "volume", "playback"}],
            [name |-> "ai-platform-linux",
             capabilities |-> {"system", "process", "file", "command", "application"}],
            [name |-> "hardware-bridge",
             capabilities |-> {"gpio", "sensor", "actuator", "pwm", "i2c", "spi"}],
            [name |-> "ai-home-automation",
             capabilities |-> {"lights", "temperature", "security", "automation"}] >>
    ELSE << [name |-> "ai-audio-assistant",
             capabilities |-> {"audio", "music", "voice", "streaming"}],
            [name |-> "ai-platform-linux",
             capabilities |-> {"system", "process", "file", "command"}],
            [name |-> "hardware-bridge",
             capabilities |-> {"gpio", "sensor", "actuator", "pwm"}] >>

HealthStatuses == {"ok", "degraded", "unreachable"}

\* The intents of the classifier's table and the capability tag the Router
\* associates with each.
ReservedIntents == {"play_music", "control_volume", "switch_audio", "system_control",
                    "hardware_control", "home_control", "download"}
IntentTag(intent) ==
    CASE intent \in {"play_music", "control_volume", "switch_audio"} -> "audio"
      [] intent = "system_control" -> "system"
      [] intent = "hardware_control" -> "gpio"
      [] intent = "home_control" -> "home"
      [] intent = "download" -> "download"

NoRoute == [intent |-> "", tag |-> "", service |-> "", startupDone |-> FALSE,
            healthy |-> FALSE]

\* Before main runs: no program chosen, no CoreOrchestrator.
InitRouteVars ==
    /\ mainProgram = "none"
    /\ services = <<>>
    /\ routeResult = NoRoute

\* main up to its first registerService: g_orchestrator is constructed, with an
\* empty registry.
MainStart(program) ==
    /\ mainProgram = "none"
    /\ mainProgram' = program
    /\ UNCHANGED <<services, routeResult>>

\* registerService(name, host, port, capabilities): a new ServiceInfo, healthy.
RegisterService(name, capabilities) ==
    /\ \A i \in 1..Len(services) : services[i].name # name
    /\ services' = Append(services, [name |-> name, capabilities |-> capabilities,
                                     healthStatus |-> "ok"])
    /\ UNCHANGED <<mainProgram, routeResult>>

\* main: the next registerService call of the startup sequence.
MainRegisterNext ==
    /\ mainProgram # "none"
    /\ Len(services) < Len(StartupServices(mainProgram))
    /\ LET next == StartupServices(mainProgram)[Len(services) + 1]
       IN  RegisterService(next.name, next.capabilities)

StartupDone ==
    mainProgram # "none" /\ Len(services) = Len(StartupServices(mainProgram))

\* The health probe of service i ends with the given status.
HealthProbe(i, status) ==
    /\ i \in 1..Len(services)
    /\ services[i].healthStatus # status
    /\ services' = [services EXCEPT ![i].healthStatus = status]
    /\ UNCHANGED <<mainProgram, routeResult>>

\* Router: the first service whose capabilities contain the tag, "none" when
\* there is no such service ("no service available for <intent>").
SelectService(registry, tag) ==
    LET matching == {i \in 1..Len(registry) : tag \in registry[i].capabilities}
    IN  IF matching = {} THEN "none"
        ELSE registry[CHOOSE i \in matching : \A j \in matching : i <= j].name

\* routeCommand(intent, context) for an intent of the table.
RouteCommand(intent) ==
    /\ mainProgram # "none"
    /\ routeResult' = [intent |-> intent, tag |-> IntentTag(intent),
                       service |-> SelectService(services, IntentTag(intent)),
                       startupDone |-> StartupDone,
                       healthy |-> \A i \in 1..Len(services) :
                                       services[i].healthStatus = "ok"]
    /\ UNCHANGED <<mainProgram, services>>

NextRoute ==
    \/ \E program \in {"full", "basic"} : MainStart(program) /\ UNCHANGED routeFrame
    \/ MainRegisterNext /\ UNCHANGED routeFrame
    \/ \E i \in 1..Len(services), status \in HealthStatuses : HealthProbe(i, status) /\ UNCHANGED routeFrame
    \/ \E intent \in ReservedIntents : RouteCommand(intent) /\ UNCHANGED routeFrame

\* C39: once main has registered its services (ai-audio-assistant,
\* ai-platform-linux, hardware-bridge, ai-home-automation) and while all of
\* them are healthy, routing an intent of the table finds a service: the tag
\* of the intent is among the capabilities of a registered service.
C39_ReservedIntentRouted ==
    routeResult.intent \in ReservedIntents /\ routeResult.startupDone
        /\ routeResult.healthy /\ mainProgram = "full"
    => routeResult.service # "none"

(***************************************************************************)
(* Specifications                                                          *)
(***************************************************************************)
NextRegistry ==
    \/ \E tool \in Tool : RegisterTool(tool) /\ UNCHANGED regFrame
    \/ \E name \in ToolNames : RemoveTool(name) /\ UNCHANGED regFrame

InitAll == InitRegistryVars /\ InitClientVars /\ InitJobVars /\ InitTaskVars
           /\ InitApiVars /\ InitCtxVars /\ InitServerVars
           /\ InitStopVars
           /\ InitOrchVars
           /\ InitWireVars
           /\ InitRaceVars
           /\ InitPoolVars
           /\ InitCopyVars
           /\ InitCancelVars
           /\ InitGpioVars
           /\ InitQueueVars
           /\ InitRouteVars

SpecRegistry == InitAll /\ [][NextRegistry]_vars

\* The server as wired: connections served concurrently by handleClient.
NextJobs ==
    \/ \E c \in Clients : AcceptClient(c) /\ UNCHANGED jobFrame
    \/ \E c \in Clients : ReceiveCrash(c) /\ UNCHANGED jobFrame
    \/ \E c \in Clients : ReceiveEnd(c) /\ UNCHANGED jobFrame
    \/ \E c \in Clients : EnqueueRead(c) /\ UNCHANGED jobFrame
    \/ \E c \in Clients : EnqueueIncrement(c) /\ UNCHANGED jobFrame
    \/ \E c \in Clients : EnqueueInsert(c) /\ UNCHANGED jobFrame
    \/ \E c \in Clients : WriteDownloadResponse(c) /\ UNCHANGED jobFrame
    \/ \E c \in Clients, id \in SessionIds :
          ProcessStatus(c, id) /\ UNCHANGED jobFrame
    \/ \E c \in Clients : ProcessOther(c) /\ UNCHANGED jobFrame

\* The job engine used as a library: one connection sends the requests, and
\* the DownloadJob of an accepted session is passed to the JobWorker pool.
NextEngine ==
    \/ AcceptClient(1) /\ UNCHANGED jobFrame
    \/ EnqueueRead(1) /\ UNCHANGED jobFrame
    \/ EnqueueIncrement(1) /\ UNCHANGED jobFrame
    \/ EnqueueInsert(1) /\ UNCHANGED jobFrame
    \/ WriteDownloadResponse(1) /\ UNCHANGED jobFrame
    \/ \E id \in SessionIds : ProcessStatus(1, id) /\ UNCHANGED jobFrame
    \/ \E id \in SessionIds : CallerAddJob(id) /\ UNCHANGED jobFrame
    \/ WorkerTake /\ UNCHANGED jobFrame
    \/ \E job \in running, curlOk \in BOOLEAN :
          WorkerExecute(job, curlOk) /\ UNCHANGED jobFrame

SpecEngine == InitAll /\ [][NextEngine]_vars

SpecJobs == InitAll /\ [][NextJobs]_vars

SpecClient == InitAll /\ [][NextClient]_vars

InitTaskSpec ==
    InitRegistryVars /\ InitClientVars /\ InitJobVars /\ InitApiVars /\ InitCtxVars
        /\ InitServerVars /\ InitTaskAny /\ InitRouteVars /\ InitQueueVars /\ InitGpioVars /\ InitCancelVars /\ InitCopyVars /\ InitPoolVars /\ InitRaceVars /\ InitWireVars /\ InitOrchVars /\ InitStopVars

SpecTask == InitTaskSpec /\ [][NextTask]_vars

SpecApi == InitAll /\ [][NextApi]_vars

SpecContext == InitAll /\ [][NextContext]_vars

SpecContextConcurrent == InitAll /\ [][NextContextConcurrent]_vars

\* The timed scenario: requests with pairwise distinct ids (caller t sends
\* id t) on a client that is not destroyed while they wait.
NextClientTimed ==
    \/ ClientConnect /\ UNCHANGED clientFrame
    \/ ClientDisconnect /\ UNCHANGED clientFrame
    \/ \E t \in Callers : SendRequestEnter(t, t) /\ UNCHANGED clientFrame
    \/ \E t \in Callers : WaitInsert(t) /\ UNCHANGED clientFrame
    \/ Tick /\ UNCHANGED clientFrame
    \/ \E t \in Callers : WaitReady(t) /\ UNCHANGED clientFrame
    \/ \E t \in Callers : WaitTimeout(t) /\ UNCHANGED clientFrame
    \/ \E r \in Response : OnResponse(r) /\ UNCHANGED clientFrame

\* wait_for is a timed wait of the OS: the clock keeps advancing and a caller
\* whose wait is over (ready or expired) is scheduled again.
ClientFairness ==
    /\ WF_vars(Tick /\ UNCHANGED clientFrame)
    /\ \A t \in Callers : WF_vars(WaitTimeout(t) /\ UNCHANGED clientFrame)
    /\ \A t \in Callers : WF_vars(WaitReady(t) /\ UNCHANGED clientFrame)

SpecClientFair == InitAll /\ [][NextClientTimed]_vars /\ ClientFairness

(***************************************************************************)
(* Claims: tool registry                                                   *)
(***************************************************************************)

\* C1: registering a tool under a name that is already registered fails with
\* an error and leaves the first registration unchanged: the entry stored
\* under a name is the earliest registration of it not unregistered since.
C1_DuplicateRejected ==
    /\ \A n \in DOMAIN tools : tools[n] = firstRegistered[n]
    /\ (regResult.op = "register" /\ regResult.duplicate) => regResult.outcome = "error"

(***************************************************************************)
(* Claims: tinymcp Client                                                  *)
(***************************************************************************)

\* C2: the pending-request map never leaks ids: once sendRequest has returned
\* or thrown for a request id, pendingRequests holds no entry for that id
\* (an entry under the id that feeds another call still waiting is that
\* call's, not a leak).
C2_NoLeakedIds ==
    \A t \in Callers :
        callPc[t] \in CallOver =>
            \/ reqId[t] \notin DOMAIN pendingRequests
            \/ pendingRequests[reqId[t]] # {}

\* C3: every sendRequest call that completes with a Response got the Response
\* whose id equals its own request id, never another request's.
C3_OwnResponse ==
    \A t \in Callers :
        callPc[t] = "returned" =>
            shared[t].state = "value" /\ shared[t].id = reqId[t]

\* C3 witness: two calls with distinct ids in flight together, one already
\* returned, the other fulfilled and about to return.
C3_Witness ==
    \E t, u \in Callers :
        /\ reqId[t] # reqId[u]
        /\ callPc[t] = "returned"
        /\ callPc[u] = "waiting" /\ shared[u].state = "value"

\* C4: a response whose id matches no pending request is dropped:
\* pendingRequests is unchanged, no caller is completed by it, and no request
\* reply is produced for it.
C4_UnmatchedDropped ==
    [][\A r \in Response :
          (r.id \notin DOMAIN pendingRequests /\ OnResponse(r))
              => UNCHANGED <<pendingRequests, callPc, shared, lastReply>>]_vars

\* C4 witness: an unmatched response was dropped while a request was pending
\* and still is, and nothing was handled as a request.
C4_Witness ==
    /\ lastDelivery = "dropped"
    /\ lastReply = NoReply
    /\ \E t \in Callers : Blocked(t) /\ pendingRequests[reqId[t]] = {t}

\* C5: on a client that stays in existence, a sendRequest whose response never
\* arrives does not wait forever: it ends with the timeout failure, and that
\* failure is raised only once the configured timeout has elapsed.
C5_TimeoutLiveness ==
    /\ \A t \in Callers :
          (callPc[t] = "waiting") ~> (callPc[t] = "timeout" \/ shared[t].state # "empty")
    /\ [](\A t \in Callers : callPc[t] = "timeout" => elapsed[t] >= TimeoutTicks)

\* C5 witness: a call on a connected client ended with the timeout failure.
C5_Witness ==
    \E t \in Callers : callPc[t] = "timeout" /\ connected

\* C6: closing the client while requests are pending fails every pending
\* sendRequest and empties pendingRequests: right after the client goes from
\* connected to not connected, no entry is left and no caller is still blocked.
C6_CloseFailsPending ==
    [][(connected /\ ~connected')
          => /\ DOMAIN pendingRequests' = {}
             /\ \A t \in Callers :
                   ~(callPc'[t] = "waiting" /\ shared'[t].state = "empty")]_vars

(***************************************************************************)
(* Claims: job engine                                                      *)
(***************************************************************************)

\* C7: the status a Status request reports for a session changes only along
\* the DAG Queued -> Downloading -> {Completed | Failed}, Aborted from Queued
\* or Downloading, starting at Queued when the job enters the table; a
\* Completed, Failed or Aborted status never changes again.
C7_StatusDag ==
    [][\A id \in SessionIds :
          LET before == StatusReply(id)
              after == StatusReply(id)'
              edges == {<<"Queued", "Downloading">>, <<"Downloading", "Completed">>,
                        <<"Downloading", "Failed">>, <<"Queued", "Aborted">>,
                        <<"Downloading", "Aborted">>}
          IN before # after =>
                \/ before = "Not found" /\ after = "Queued"
                \/ <<before, after>> \in edges]_vars

\* C7 witness: two jobs are in the table and a Status request has just
\* reported one of them.
C7_Witness ==
    /\ Cardinality(DOMAIN jobs) >= 2
    /\ lastResponse.kind = "status"
    /\ lastResponse.id \in DOMAIN jobs
    /\ lastResponse.status = "Queued"

\* C8: every accepted Download request is handed to the JobWorker pool: once
\* the requests in progress have been answered, each job of the table has
\* been executed or is with the workers.
C8_AcceptedJobsReachWorkers ==
    (~crashed /\ \A c \in Clients : clientPc[c] \in {"none", "recv", "ended"})
        => \A id \in DOMAIN jobs :
              jobs[id].status \in {"Completed", "Failed"} \/ id \in HandedToWorkers

\* C9: when DownloadJob::execute has ended, the JobInfo of its session holds
\* Completed or Failed as the transfer went and a Status request returns it;
\* a Status request for an id never allocated returns "Not found".
C9_ExecuteOutcomeInTable ==
    /\ \A id \in DOMAIN jobReport :
          id \in DOMAIN jobs /\ jobs[id].status = jobReport[id]
                             /\ StatusReply(id) = jobReport[id]
    /\ \A id \in SessionIds :
          (\A i \in 1..Len(allocated) : allocated[i] # id) => StatusReply(id) = "Not found"

\* C10: session ids are monotone and unique: the ids enqueueJob draws are
\* strictly increasing, and every job inserted has a JobInfo entry of its own.
C10_UniqueSessionIds ==
    /\ \A i, j \in 1..Len(allocated) : i < j => allocated[i] < allocated[j]
    /\ Cardinality(DOMAIN jobs)
          + Cardinality({c \in Clients : clientPc[c] \in {"enq_incr", "enq_insert"}})
       = Len(allocated)

(***************************************************************************)
(* Claims: DownloadTask                                                    *)
(***************************************************************************)

\* C11: an abort issued while the download runs makes the job end with final
\* status Aborted (an own status, neither Failed nor Completed) and with the
\* partial output file removed.
C11_AbortEndsAborted ==
    (taskPc = "done" /\ cancelledRunning)
        => /\ session.status = "aborted"
           /\ outputFile = "absent"

(***************************************************************************)
(* Claims: client-side APIs                                                *)
(***************************************************************************)

\* C12: job submission returns the job's own id: the session id a download
\* call reports, through the MCP download tool and through wg_download, is
\* the sessionId the job engine allocated for that job.
C12_SubmitReturnsOwnId ==
    apiReport.api \in Apis => apiReport.reported = apiReport.engine

(***************************************************************************)
(* Claims: context store                                                   *)
(***************************************************************************)

\* C13: for every session of the ContextManager, whenever no operation is in
\* progress, commandHistory and responseHistory have the same length and that
\* length is at most 50.
C13_HistoriesPaired ==
    sessionsMutex = 0 =>
        \A id \in DOMAIN sessionsCache :
            /\ Len(sessionsCache[id].commandHistory) = Len(sessionsCache[id].responseHistory)
            /\ Len(sessionsCache[id].commandHistory) <= HistoryLimit

\* C14: concurrent addCommandToHistory calls on a session are serialized:
\* whenever no call holds the lock, the two histories are one sequence of
\* calls, each call at most once, and at every index the command and the
\* response were supplied by the same call.
C14_AddSerialized ==
    sessionsMutex = 0 =>
        \A id \in DOMAIN sessionsCache :
            LET commands == sessionsCache[id].commandHistory
                responses == sessionsCache[id].responseHistory
            IN /\ Len(commands) = Len(responses)
               /\ \A i \in 1..Len(commands) : commands[i] = responses[i]
               /\ \A i, j \in 1..Len(commands) : i # j => commands[i] # commands[j]

\* C14 witness: all threads have completed a call on one session whose
\* history was full, so that the calls were appended in turn and the oldest
\* entries trimmed.
C14_Witness ==
    /\ sessionsMutex = 0
    /\ \A t \in CtxThreads : addPc[t] = "idle" /\ addCalls[t] = MaxAddCalls
    /\ \E id \in DOMAIN sessionsCache :
          /\ Len(sessionsCache[id].commandHistory) = HistoryLimit
          /\ \A t \in CtxThreads :
                \E i \in 1..HistoryLimit :
                    sessionsCache[id].commandHistory[i] = [by |-> t, n |-> MaxAddCalls]

\* C15: a session whose lastAccessed was set to 31 minutes back is swept
\* within one sweep cycle: a minute later neither the cache nor the durable
\* layer holds a session last accessed more than 31 minutes ago.
C15_ExpiredSwept ==
    \A id \in DOMAIN sessionsCache \cup DOMAIN sessionFiles :
        LET accessed == IF id \in DOMAIN sessionsCache
                        THEN sessionsCache[id].lastAccessed
                        ELSE sessionFiles[id].lastAccessed
        IN now - accessed <= ActiveMinutes + 1

\* C16: the store is write-through: right after a completed write to a
\* session, the cached value and the value the durable layer holds are equal
\* (both absent, or both present with every field equal).
C16_WriteThrough ==
    lastWrite.op # "none" =>
        LET id == lastWrite.id
        IN /\ id \in DOMAIN sessionsCache <=> id \in DOMAIN sessionFiles
           /\ id \in DOMAIN sessionsCache =>
                 /\ SerializeSessionContext(sessionsCache[id]) = sessionFiles[id]
                 /\ sessionsCache[id].serviceState = EmptyMap

\* C17: on a cache miss for a saved session, getSessionContext(id) returns a
\* context whose sessionId is id and whose fields are the saved ones, and
\* caches it under the key id.
C17_LoadRoundTrip ==
    (lastGet.found /\ ~lastGet.hit) =>
        LET context == lastGet.context[1]
            saved == sessionFiles[lastGet.id]
        IN /\ context.sessionId = lastGet.id
           /\ context.userId = saved.userId
           /\ context.commandHistory = saved.commandHistory
           /\ lastGet.id \in DOMAIN sessionsCache

SpecServer == InitAll /\ [][NextServer]_vars

\* Every thread of the two servers gets to run when it can; peers owe nothing.
StopFairness ==
    /\ WF_vars(HwAcceptTest /\ UNCHANGED <<hwFrame, stopFrame>>)
    /\ WF_vars(HwStopJoin /\ UNCHANGED <<hwFrame, stopFrame>>)
    /\ WF_vars(HwStopClose /\ UNCHANGED <<hwFrame, stopFrame>>)
    /\ WF_vars(WgAcceptTest /\ UNCHANGED <<wgFrame, stopFrame>>)
    /\ WF_vars(WgStopJoin /\ UNCHANGED <<wgFrame, stopFrame>>)

SpecStopFair == InitAll /\ [][NextStop]_vars /\ StopFairness

SpecHistory == InitAll /\ [][NextHistory]_vars

SpecOrchestrator == InitAll /\ [][NextOrchestrator]_vars

SpecWire == InitAll /\ [][NextWire]_vars

SpecRace == InitAll /\ [][NextRace]_vars

SpecPool == InitAll /\ [][NextPool]_vars

SpecLostHistory == InitAll /\ [][NextLostHistory]_vars

SpecUncached == InitAll /\ [][NextUncached]_vars

SpecCancel == InitTaskSpec /\ [][NextCancel]_vars

SpecGpio == InitAll /\ [][NextGpio]_vars
SpecQueue == InitAll /\ [][NextQueue]_vars
SpecRoute == InitAll /\ [][NextRoute]_vars
====
